---- MODULE Spec2Model ----
(***************************************************************************)
(* The streaming chat / replay engine of web/src/core/api/chat.ts:         *)
(* chatStream, chatReplayStream, fetchReplay, sleepInReplay and            *)
(* fastForwardReplay, with the module-level state they share               *)
(* (fastForwardReplaying, replayCache).                                    *)
(*                                                                         *)
(* Strings are TLA+ strings; the JavaScript string methods the code uses   *)
(* (includes, startsWith, substring, split, replace, trim) are operators   *)
(* over them.  JavaScript runs each synchronous segment of an async        *)
(* function to completion, so one action is one such segment: from a       *)
(* resumption (a pull of the consumer, a timer, a fetch result) to the     *)
(* next await or yield.                                                    *)
(***************************************************************************)
EXTENDS Integers, Sequences, FiniteSets, TLC

(***************************************************************************)
(* Bounds of the model.                                                    *)
(***************************************************************************)
MaxToggles == 1
MaxNav == 1
MaxChunks == 3
MaxPaceChunks == 2
MaxMessages == 3

(***************************************************************************)
(* JavaScript string methods.                                              *)
(***************************************************************************)
StartsWith(s, p) == Len(s) >= Len(p) /\ SubSeq(s, 1, Len(p)) = p

\* s.substring(n): the text from the 0-based index n on
Substring(s, n) == SubSeq(s, n + 1, Len(s))

\* s.indexOf(p) as a 1-based index, 0 when p does not occur in s
IndexOf(s, p) ==
  LET hits == {i \in 1..(Len(s) - Len(p) + 1) : SubSeq(s, i, i + Len(p) - 1) = p}
  IN  IF hits = {} THEN 0 ELSE CHOOSE i \in hits : \A j \in hits : i <= j

Includes(s, p) == IndexOf(s, p) # 0

\* s.split(sep) for a non-empty separator
RECURSIVE Split(_, _)
Split(s, sep) ==
  LET i == IndexOf(s, sep)
  IN  IF i = 0 THEN <<s>>
      ELSE <<SubSeq(s, 1, i - 1)>> \o Split(SubSeq(s, i + Len(sep), Len(s)), sep)

\* s.replace(/\r\n/g, "\n")
RECURSIVE ReplaceCRLF(_)
ReplaceCRLF(s) ==
  LET i == IndexOf(s, "\r\n")
  IN  IF i = 0 THEN s
      ELSE SubSeq(s, 1, i - 1) \o "\n" \o ReplaceCRLF(SubSeq(s, i + 2, Len(s)))

WhiteSpace == {" ", "\t", "\n", "\r"}

\* s.trim()
RECURSIVE TrimStart(_)
TrimStart(s) ==
  IF Len(s) > 0 /\ SubSeq(s, 1, 1) \in WhiteSpace THEN TrimStart(Tail(s)) ELSE s

RECURSIVE TrimEnd(_)
TrimEnd(s) ==
  IF Len(s) > 0 /\ SubSeq(s, Len(s), Len(s)) \in WhiteSpace
  THEN TrimEnd(SubSeq(s, 1, Len(s) - 1)) ELSE s

Trim(s) == TrimEnd(TrimStart(s))

(***************************************************************************)
(* URLSearchParams over location.search: the leading "?" is dropped, the   *)
(* rest is split on "&", empty pieces are ignored, and each piece is split *)
(* on its first "=" (a piece without "=" is a name with the value "").     *)
(* "+" decodes to a space.  The query strings of the model hold no percent *)
(* escapes.                                                                *)
(***************************************************************************)
RECURSIVE PlusDecode(_)
PlusDecode(s) ==
  IF Len(s) = 0 THEN s
  ELSE (IF SubSeq(s, 1, 1) = "+" THEN " " ELSE SubSeq(s, 1, 1)) \o PlusDecode(Tail(s))

ParsePair(piece) ==
  LET i == IndexOf(piece, "=")
  IN  IF i = 0 THEN [name |-> PlusDecode(piece), value |-> ""]
      ELSE [name  |-> PlusDecode(SubSeq(piece, 1, i - 1)),
            value |-> PlusDecode(SubSeq(piece, i + 1, Len(piece)))]

URLSearchParams(search) ==
  LET body   == IF StartsWith(search, "?") THEN Substring(search, 1) ELSE search
      pieces == SelectSeq(Split(body, "&"), LAMBDA p : Len(p) > 0)
  IN  [i \in 1..Len(pieces) |-> ParsePair(pieces[i])]

\* urlParams.has(name)
ParamsHas(params, name) == \E i \in 1..Len(params) : params[i].name = name

\* urlParams.get(name): the first value, Null when there is none
Null == "<null>"
ParamsGet(params, name) ==
  IF ParamsHas(params, name)
  THEN LET i == CHOOSE i \in 1..Len(params) :
                  /\ params[i].name = name
                  /\ \A j \in 1..(i - 1) : params[j].name # name
       IN  params[i].value
  ELSE Null

(***************************************************************************)
(* JavaScript values.  A parsed JSON payload is a record: its kind, the    *)
(* two properties the pacing code reads (Undefined when the payload has no *)
(* such property) and the payload's canonical text.                        *)
(***************************************************************************)
Undefined == "<undefined>"

\* the values JavaScript coerces to false, among the values of the model
Falsy(v) == v \in {Undefined, Null, ""}

JsonObject(src, fr, role) ==
  [ok |-> TRUE, kind |-> "object", src |-> src, finish_reason |-> fr, role |-> role]

SyntaxError == [ok |-> FALSE, kind |-> "error", src |-> "", finish_reason |-> Undefined,
                role |-> Undefined]

\* JSON.parse on the payloads of the model: surrounding white space is
\* insignificant, null is a value without properties, any other text that is
\* not JSON throws SyntaxError.
JSONParse(data) ==
  LET t == Trim(data)
  IN  CASE t = "{}" -> JsonObject(t, Undefined, Undefined)
        [] t = "{\"finish_reason\":null}" -> JsonObject(t, Null, Undefined)
        [] t = "{\"finish_reason\":\"stop\"}" -> JsonObject(t, "stop", Undefined)
        [] t = "{\"role\":\"user\"}" -> JsonObject(t, Undefined, "user")
        [] t = "{\"result\":\"ok\"}" -> JsonObject(t, Undefined, Undefined)
        [] t = "null" -> [ok |-> TRUE, kind |-> "null", src |-> t,
                          finish_reason |-> Undefined, role |-> Undefined]
        [] OTHER -> SyntaxError

\* reading a property of null or undefined throws TypeError
PropertyThrows(value) == value.kind = "null"

(***************************************************************************)
(* The replay registry.                                                    *)
(***************************************************************************)
REPLAY_DATA ==
  [id \in {"ai-twin-insurance", "china-food-delivery", "eiffel-tower-vs-tallest-building",
           "github-top-trending-repo", "nanjing-traditional-dishes", "rag",
           "rental-apartment-decoration", "review-of-the-professional",
           "ultra-processed-foods"} |->
     CASE id = "ai-twin-insurance" -> "Would you insure your AI twin?"
       [] id = "china-food-delivery" -> "How do you view the takeaway war in China?"
       [] id = "eiffel-tower-vs-tallest-building" ->
            "How tall is Eiffel Tower compared to tallest building?"
       [] id = "github-top-trending-repo" ->
            "What are the top trending repositories on GitHub?"
       [] id = "nanjing-traditional-dishes" ->
            "Write an article about Nanjing's traditional dishes"
       [] id = "rag" -> "RAG demonstration"
       [] id = "rental-apartment-decoration" -> "How to decorate a small rental apartment?"
       [] id = "review-of-the-professional" -> "Introduce the movie 'Leon: The Professional'"
       [] id = "ultra-processed-foods" -> "Are ultra-processed foods linked to health?"]

\* REPLAY_DATA is an object literal: its prototype is Object.prototype, whose
\* properties the `in` operator finds as well.
ObjectPrototype ==
  {"constructor", "hasOwnProperty", "isPrototypeOf", "propertyIsEnumerable",
   "toLocaleString", "toString", "valueOf", "__proto__", "__defineGetter__",
   "__defineSetter__", "__lookupGetter__", "__lookupSetter__"}

\* a validity test against the titles instead of the ids
isValidReplayIdByTitle(replayId) == \E id \in DOMAIN REPLAY_DATA : REPLAY_DATA[id] = replayId

\* replayId in REPLAY_DATA
isValidReplayId(replayId) == replayId \in (DOMAIN REPLAY_DATA \cup ObjectPrototype)

\* REPLAY_DATA[replayId]: the title of a registered id, a property inherited
\* from Object.prototype (a function, or for __proto__ the prototype object),
\* or undefined
PropertyOf(replayId) ==
  IF replayId \in DOMAIN REPLAY_DATA THEN REPLAY_DATA[replayId]
  ELSE IF replayId = "__proto__" THEN "<object>"
  ELSE IF replayId \in ObjectPrototype THEN "<function>"
  ELSE Undefined

\* REPLAY_DATA[replayId] || "Unknown Replay"
getReplayTitle(replayId) ==
  IF Falsy(PropertyOf(replayId)) THEN "Unknown Replay" ELSE PropertyOf(replayId)

\* extractReplayIdFromSearchParams (core/replay/get-replay-id): the value of
\* the `replay` parameter of the query string, Null when it has none.
extractReplayIdFromSearchParams(search) == ParamsGet(URLSearchParams(search), "replay")

(***************************************************************************)
(* chatStream's choice of source and chatReplayStream's choice of          *)
(* transcript.                                                             *)
(***************************************************************************)
\* the condition of chatStream's first statement
UseReplay(static, search) ==
  \/ static
  \/ Includes(search, "mock")
  \/ Includes(search, "replay=")

\* a resolver that looks for a replay id before it looks for `mock`
ResolveReplayIdFirst(search, interrupt_feedback) ==
  LET urlParams == URLSearchParams(search)
      replayId  == extractReplayIdFromSearchParams(search)
  IN  IF ~Falsy(replayId) /\ isValidReplayId(replayId)
      THEN [mock |-> FALSE, path |-> "/replay/" \o replayId \o ".txt"]
      ELSE IF ParamsHas(urlParams, "mock") /\ ~Falsy(ParamsGet(urlParams, "mock"))
      THEN [mock |-> TRUE, path |-> "/mock/" \o ParamsGet(urlParams, "mock") \o ".txt"]
      ELSE [mock |-> ParamsHas(urlParams, "mock"), path |-> "/mock/first-plan.txt"]

\* a resolver whose tests of interrupt_feedback are the wrong way round
ResolveReplayFeedbackSwapped(search, interrupt_feedback) ==
  LET urlParams == URLSearchParams(search)
  IN  IF ParamsHas(urlParams, "mock")
      THEN [mock |-> TRUE,
            path |-> IF ~Falsy(ParamsGet(urlParams, "mock"))
                     THEN "/mock/" \o ParamsGet(urlParams, "mock") \o ".txt"
                     ELSE IF interrupt_feedback = "edit_plan" THEN "/mock/final-answer.txt"
                     ELSE IF interrupt_feedback = "accepted" THEN "/mock/re-plan.txt"
                     ELSE "/mock/first-plan.txt"]
      ELSE LET replayId == extractReplayIdFromSearchParams(search)
           IN  [mock |-> FALSE,
                path |-> IF ~Falsy(replayId) /\ isValidReplayId(replayId)
                         THEN "/replay/" \o replayId \o ".txt"
                         ELSE "/mock/first-plan.txt"]

\* the replayFilePath chatReplayStream computes, and whether it took the
\* branch that sets fastForwardReplaying
ResolveReplay(search, interrupt_feedback) ==
  LET urlParams == URLSearchParams(search)
  IN  IF ParamsHas(urlParams, "mock")
      THEN [mock |-> TRUE,
            path |-> IF ~Falsy(ParamsGet(urlParams, "mock"))
                     THEN "/mock/" \o ParamsGet(urlParams, "mock") \o ".txt"
                     ELSE IF interrupt_feedback = "accepted" THEN "/mock/final-answer.txt"
                     ELSE IF interrupt_feedback = "edit_plan" THEN "/mock/re-plan.txt"
                     ELSE "/mock/first-plan.txt"]
      ELSE LET replayId == extractReplayIdFromSearchParams(search)
           IN  [mock |-> FALSE,
                path |-> IF ~Falsy(replayId) /\ isValidReplayId(replayId)
                         THEN "/replay/" \o replayId \o ".txt"
                         ELSE "/mock/first-plan.txt"]

(***************************************************************************)
(* fetchReplayTitle(): what the promise settles to, fulfilled with a value *)
(* or rejected with an Error of that message.                              *)
(***************************************************************************)
Settled(ok, value) == [ok |-> ok, value |-> value]

fetchReplayTitle(search) ==
  LET replayId == extractReplayIdFromSearchParams(search)
  IN  IF ~Falsy(replayId) /\ isValidReplayId(replayId)
      THEN Settled(TRUE, getReplayTitle(replayId))
      ELSE Settled(FALSE, "No replay ID found")

(***************************************************************************)
(* The body of chatReplayStream's loop over the chunks of the transcript.  *)
(***************************************************************************)
\* const chunks = text.replace(/\r\n/g, "\n").split("\n\n")
ChunksOf(text) == Split(ReplaceCRLF(text), "\n\n")

\* an inner loop that keeps the first `event: ` line and the first `data: `
\* line of a chunk
RECURSIVE ScanLinesFirstWins(_, _, _)
ScanLinesFirstWins(lines, event, data) ==
  IF lines = <<>> THEN [event |-> event, data |-> data]
  ELSE LET line == Head(lines)
       IN  IF StartsWith(line, "event: ")
           THEN ScanLinesFirstWins(Tail(lines), IF event = "" THEN Substring(line, 7) ELSE event,
                                   data)
           ELSE IF StartsWith(line, "data: ")
           THEN ScanLinesFirstWins(Tail(lines), event,
                                   IF data = "" THEN Substring(line, 6) ELSE data)
           ELSE ScanLinesFirstWins(Tail(lines), event, data)

\* the inner loop over the lines of a chunk: the last `event: ` line and the
\* last `data: ` line win
RECURSIVE ScanLines(_, _, _)
ScanLines(lines, event, data) ==
  IF lines = <<>> THEN [event |-> event, data |-> data]
  ELSE LET line == Head(lines)
       IN  IF StartsWith(line, "event: ")
           THEN ScanLines(Tail(lines), Substring(line, 7), data)
           ELSE IF StartsWith(line, "data: ")
           THEN ScanLines(Tail(lines), event, Substring(line, 6))
           ELSE ScanLines(Tail(lines), event, data)

ParseChunk(chunk) == ScanLines(Split(chunk, "\n"), "", "")

\* the chatEvent built from a chunk that passed both `continue` tests
ChatEventOf(chunk) ==
  LET f == ParseChunk(chunk) IN [type |-> f.event, data |-> JSONParse(f.data)]

\* a pacing table that waits 50 ms before every event that is not a tool result
SleepBeforeEveryType(chatEvent) ==
  IF chatEvent.type = "tool_call_result" THEN 500
  ELSE IF chatEvent.type = "message_chunk" /\ ~Falsy(chatEvent.data.finish_reason) THEN 0
  ELSE 50

\* a pacing table that waits before a message_chunk only when its payload has
\* no finish_reason field at all
SleepBeforeFieldAbsent(chatEvent) ==
  IF chatEvent.type = "message_chunk"
  THEN IF chatEvent.data.finish_reason = Undefined THEN 50 ELSE 0
  ELSE IF chatEvent.type = "tool_call_result" THEN 500 ELSE 0

\* the nominal delay before the yield, 0 when the code calls no sleepInReplay
SleepBefore(chatEvent) ==
  IF chatEvent.type = "message_chunk"
  THEN IF Falsy(chatEvent.data.finish_reason) THEN 50 ELSE 0
  ELSE IF chatEvent.type = "tool_call_result" THEN 500 ELSE 0

\* a pacing table that waits after every message_chunk, whatever its role
SleepAfterAnyRole(chatEvent) ==
  IF chatEvent.type = "tool_call_result" THEN 800
  ELSE IF chatEvent.type = "message_chunk" THEN 500
  ELSE 0

\* a pacing table that waits after a tool result as long as after a user message
SleepAfterToolAsUser(chatEvent) ==
  IF chatEvent.type = "tool_call_result" THEN 500
  ELSE IF chatEvent.type = "message_chunk" /\ chatEvent.data.role = "user" THEN 500
  ELSE 0

\* the nominal delay after the yield, 0 when the code calls no sleepInReplay
SleepAfter(chatEvent) ==
  IF chatEvent.type = "tool_call_result" THEN 800
  ELSE IF chatEvent.type = "message_chunk" /\ chatEvent.data.role = "user" THEN 500
  ELSE 0

\* a loop body whose second `continue` tests the event name alone
ChunkStepNoDataTest(chunk) ==
  IF Trim(chunk) = "" THEN "skip"
  ELSE LET f == ParseChunk(chunk)
       IN  IF Falsy(f.event) THEN "skip"
           ELSE LET chatEvent == ChatEventOf(chunk)
                IN  IF ~chatEvent.data.ok THEN "throw"
                    ELSE IF chatEvent.type = "message_chunk" /\ PropertyThrows(chatEvent.data)
                    THEN "throw"
                    ELSE IF SleepBefore(chatEvent) > 0 THEN "sleep"
                    ELSE "yield"

\* What one pass through the loop body does with a chunk, up to its first
\* await or yield: "skip" (a `continue`), "throw" (an exception the catch
\* logs), "sleep" (the await before the yield) or "yield".
ChunkStep(chunk) ==
  IF Trim(chunk) = "" THEN "skip"
  ELSE LET f == ParseChunk(chunk)
       IN  IF Falsy(f.event) \/ Falsy(f.data) THEN "skip"
           ELSE LET chatEvent == ChatEventOf(chunk)
                IN  IF ~chatEvent.data.ok THEN "throw"
                    ELSE IF chatEvent.type = "message_chunk" /\ PropertyThrows(chatEvent.data)
                    THEN "throw"
                    ELSE IF SleepBefore(chatEvent) > 0 THEN "sleep"
                    ELSE "yield"

(***************************************************************************)
(* The inputs of the model.                                                *)
(*                                                                         *)
(* A query is location.search together with the parameters it carries,     *)
(* written down by hand: the code reads only `search`, the properties read *)
(* only `params`.  No query carries a parameter twice.                     *)
(***************************************************************************)
Param(n, v) == [name |-> n, value |-> v]

Queries ==
  { [search |-> "",                       params |-> <<>>],
    [search |-> "?thread=1",              params |-> <<Param("thread", "1")>>],
    [search |-> "?q=mock",                params |-> <<Param("q", "mock")>>],
    [search |-> "?mock=demo",             params |-> <<Param("mock", "demo")>>],
    [search |-> "?mock",                  params |-> <<Param("mock", "")>>],
    [search |-> "?mock=&replay=rag",      params |-> <<Param("mock", ""), Param("replay", "rag")>>],
    [search |-> "?replay=rag&mock=demo",  params |-> <<Param("replay", "rag"), Param("mock", "demo")>>],
    [search |-> "?replay=rag",            params |-> <<Param("replay", "rag")>>],
    [search |-> "?replay=no-such-replay", params |-> <<Param("replay", "no-such-replay")>>],
    [search |-> "?replay=constructor",    params |-> <<Param("replay", "constructor")>>],
    [search |-> "?replay",                params |-> <<Param("replay", "")>>] }

\* params.interrupt_feedback of a chatStream call
Feedbacks == {Undefined, "accepted", "edit_plan", "rejected"}

(***************************************************************************)
(* A transcript is a text together with the chunks it was written from.    *)
(* Each chunk of the pool carries, written down by hand, the event name    *)
(* and the payload of the frame it holds ("" when it holds none) and       *)
(* whether that payload is JSON.  No chunk of the pool holds a blank line  *)
(* or starts or ends with a line break, so the chunks of a text are the    *)
(* chunks it was written from.                                             *)
(***************************************************************************)
Chunk(src, event, data, json) == [src |-> src, event |-> event, data |-> data, json |-> json]

ChunkPool ==
  << Chunk("event: message_chunk\ndata: {\"finish_reason\":null}",
           "message_chunk", "{\"finish_reason\":null}", TRUE),
     Chunk("event: message_chunk\ndata: {\"finish_reason\":\"stop\"}",
           "message_chunk", "{\"finish_reason\":\"stop\"}", TRUE),
     Chunk("event: message_chunk\r\ndata: {\"role\":\"user\"}",
           "message_chunk", "{\"role\":\"user\"}", TRUE),
     Chunk("event: tool_call_result\ndata: {\"result\":\"ok\"}",
           "tool_call_result", "{\"result\":\"ok\"}", TRUE),
     Chunk("event: message_chunk\ndata: null", "message_chunk", "null", TRUE),
     Chunk("event: message_chunk\ndata: not-json", "message_chunk", "not-json", FALSE),
     Chunk("id: 7\nevent: tool_call_result\nevent: interrupt\ndata: not-json\ndata: {}",
           "interrupt", "{}", TRUE),
     Chunk("event: tool_call_result", "tool_call_result", "", FALSE),
     Chunk("data: {}", "", "{}", TRUE),
     Chunk("event: interrupt\ndata: ", "interrupt", "", FALSE),
     Chunk(" \t", "", "", FALSE) >>

\* how a text is laid out: the line break between frames, and what follows
\* the last chunk
Layouts ==
  { [sep |-> "\n\n", end |-> ""],
    [sep |-> "\n\n", end |-> "\n\n"],
    [sep |-> "\r\n\r\n", end |-> "\r\n\r\n"] }

RECURSIVE Join(_, _)
Join(picks, sep) ==
  IF picks = <<>> THEN ""
  ELSE IF Len(picks) = 1 THEN ChunkPool[picks[1]].src
  ELSE ChunkPool[picks[1]].src \o sep \o Join(Tail(picks), sep)

PickSeqs(n) == UNION {[1..k -> 1..Len(ChunkPool)] : k \in 0..n}

\* every text of at most n chunks of the pool, in every layout
Transcripts(n) ==
  { [text |-> Join(picks, l.sep) \o l.end, picks |-> picks] :
      picks \in PickSeqs(n), l \in Layouts }

\* the end-to-end transcript of the specification, and one whose first frame
\* has a payload that is not JSON
DemoTranscripts ==
  { [text |-> Join(picks, "\n\n") \o "\n\n", picks |-> picks] :
      picks \in {<<1, 4>>, <<6, 3>>} }

\* the file every /replay/ path serves
ReplayFile == [text |-> Join(<<3, 2>>, "\n\n") \o "\n\n", picks |-> <<3, 2>>]

(***************************************************************************)
(* The loop of chatReplayStream over the chunks.  What the loop body makes *)
(* of a chunk depends on the chunk alone; for the chunks the transcripts   *)
(* are written from it is worked out once.                                 *)
(***************************************************************************)
KnownChunks == {ReplaceCRLF(ChunkPool[i].src) : i \in DOMAIN ChunkPool} \cup {""}

StepTable == {<<c, ChunkStep(c)>> : c \in KnownChunks}

EventTable == {<<c, ChatEventOf(c)>> : c \in KnownChunks}

\* ChunkStep(chunk)
StepOf(chunk) == (CHOOSE p \in StepTable : p[1] = chunk)[2]

\* ChatEventOf(chunk)
EventOf(chunk) == (CHOOSE p \in EventTable : p[1] = chunk)[2]

\* Runs the loop from chunk i to the next await or yield: the chunk it stops
\* at (Len(chunks) + 1 when the loop ends) and the console.error calls made.
RECURSIVE Advance(_, _, _)
Advance(chunks, i, logged) ==
  IF i > Len(chunks) THEN [idx |-> i, logged |-> logged, at |-> "end"]
  ELSE LET step == StepOf(chunks[i])
       IN  IF step = "skip" THEN Advance(chunks, i + 1, logged)
           ELSE IF step = "throw" THEN Advance(chunks, i + 1, logged + 1)
           ELSE [idx |-> i, logged |-> logged, at |-> step]

(***************************************************************************)
(* visualization/data-transform.ts: messages to the nodes of the research  *)
(* graph.  An optional array (toolCalls, children) is a record that tells  *)
(* whether it is present; an optional string is Undefined when absent.     *)
(***************************************************************************)
Absent == [present |-> FALSE, items |-> <<>>]
Present(items) == [present |-> TRUE, items |-> items]

\* a status that puts the error first
StatusOfErrorFirst(message) ==
  IF ~Falsy(message.error) THEN "error"
  ELSE IF message.isStreaming THEN "running"
  ELSE "completed"

\* message.isStreaming ? "running" : message.error ? "error" : "completed"
StatusOf(message) ==
  IF message.isStreaming THEN "running"
  ELSE IF ~Falsy(message.error) THEN "error"
  ELSE "completed"

\* c.toUpperCase() for a single character
ToUpperCase(c) ==
  LET lower == "abcdefghijklmnopqrstuvwxyz"
      upper == "ABCDEFGHIJKLMNOPQRSTUVWXYZ"
      i     == IndexOf(lower, c)
  IN  IF i = 0 THEN c ELSE SubSeq(upper, i, i)

AgentLabels ==
  [agent \in {"coordinator", "planner", "reporter", "researcher", "coder", "human-feedback",
              "research-team"} |->
     CASE agent = "coordinator" -> "Coordinator"
       [] agent = "planner" -> "Planner"
       [] agent = "reporter" -> "Reporter"
       [] agent = "researcher" -> "Researcher"
       [] agent = "coder" -> "Coder"
       [] agent = "human-feedback" -> "Human Feedback"
       [] agent = "research-team" -> "Research Team"]

\* labels[agent] || agent.charAt(0).toUpperCase() + agent.slice(1)
getAgentLabel(agent) ==
  IF agent \in DOMAIN AgentLabels THEN AgentLabels[agent]
  ELSE IF agent \in ObjectPrototype THEN "<function>"
  ELSE IF agent = "" THEN ""
  ELSE ToUpperCase(SubSeq(agent, 1, 1)) \o Substring(agent, 1)

AgentGoals ==
  [agent \in DOMAIN AgentLabels |->
     CASE agent = "coordinator" -> "Understanding user requirements"
       [] agent = "planner" -> "Creating research plan"
       [] agent = "reporter" -> "Generating final report"
       [] agent = "researcher" -> "Gathering information"
       [] agent = "coder" -> "Executing code analysis"
       [] agent = "human-feedback" -> "Awaiting user input"
       [] agent = "research-team" -> "Coordinating research tasks"]

\* goals[agent] || "Processing research task"
getDefaultResearchGoal(agent) ==
  IF agent \in DOMAIN AgentGoals THEN AgentGoals[agent]
  ELSE IF agent \in ObjectPrototype THEN "<function>"
  ELSE "Processing research task"

\* lines.find(test), Undefined when no line passes
RECURSIVE FindTitleLine(_)
FindTitleLine(lines) ==
  IF lines = <<>> THEN Undefined
  ELSE IF StartsWith(Trim(Head(lines)), "#") THEN Head(lines)
  ELSE FindTitleLine(Tail(lines))

RECURSIVE FindNonEmptyLine(_)
FindNonEmptyLine(lines) ==
  IF lines = <<>> THEN Undefined
  ELSE IF Len(Trim(Head(lines))) > 0 THEN Head(lines)
  ELSE FindNonEmptyLine(Tail(lines))

\* line.replace(/^#+\s*/, "")
RECURSIVE DropHashes(_)
DropHashes(s) == IF StartsWith(s, "#") THEN DropHashes(Tail(s)) ELSE s

StripHeading(line) == IF StartsWith(line, "#") THEN TrimStart(DropHashes(line)) ELSE line

\* the research goal read from the content, "" when it has none
ResearchGoalOf(content) ==
  IF Falsy(content) THEN ""
  ELSE LET lines     == Split(content, "\n")
           titleLine == IF FindTitleLine(lines) # Undefined THEN FindTitleLine(lines)
                        ELSE FindNonEmptyLine(lines)
       IN  IF Falsy(titleLine) THEN "" ELSE Trim(StripHeading(titleLine))

\* one entry of toolCallResults
ToolCallResult(toolCall) ==
  [name   |-> toolCall.name,
   args   |-> toolCall.args,
   result |-> toolCall.result,
   error  |-> IF toolCall.result # Undefined /\ StartsWith(toolCall.result, "Error")
              THEN toolCall.result ELSE Undefined]

\* messageToNode(message, index), `now` being what Date.now() reads
messageToNode(message, index, now) ==
  LET agent == IF Falsy(message.agent) THEN "unknown" ELSE message.agent
      researchGoal == ResearchGoalOf(message.content)
  IN  [id               |-> message.id,
       agent            |-> agent,
       label            |-> getAgentLabel(agent),
       researchGoal     |-> IF researchGoal = "" THEN getDefaultResearchGoal(agent)
                            ELSE researchGoal,
       status           |-> StatusOf(message),
       error            |-> message.error,
       content          |-> message.content,
       reasoningContent |-> message.reasoningContent,
       toolCalls        |-> message.toolCalls,
       toolCallResults  |-> IF message.toolCalls.present
                            THEN [i \in DOMAIN message.toolCalls.items |->
                                    ToolCallResult(message.toolCalls.items[i])]
                            ELSE <<>>,
       timestamp        |-> now - index * 1000,
       parentId         |-> Undefined,
       children         |-> Absent]

\* a linking that gives every node but the first the first node as parent
LinkNodesToRoot(nodes) ==
  [index \in DOMAIN nodes |->
     [nodes[index] EXCEPT
        !.parentId = IF index > 1 THEN nodes[1].id ELSE @,
        !.children = IF index < Len(nodes)
                     THEN Present(SelectSeq(<<nodes[index + 1].id>>, LAMBDA id : ~Falsy(id)))
                     ELSE @]]

\* nodes.forEach(...): the parent is the node before, the children are the
\* node after, [nodes[index + 1].id].filter(Boolean)
LinkNodes(nodes) ==
  [index \in DOMAIN nodes |->
     [nodes[index] EXCEPT
        !.parentId = IF index > 1 THEN nodes[index - 1].id ELSE @,
        !.children = IF index < Len(nodes)
                     THEN Present(SelectSeq(<<nodes[index + 1].id>>, LAMBDA id : ~Falsy(id)))
                     ELSE @]]

\* messagesToNodes(messages); the Date.now() reads of one call fall into one
\* millisecond
messagesToNodes(msgs, now) ==
  IF Len(msgs) = 0 THEN <<>>
  ELSE LinkNodes([i \in DOMAIN msgs |-> messageToNode(msgs[i], i - 1, now)])

\* the messages of the model: a finished one with a heading and a tool call,
\* a streaming one, a failed one of no agent with a failed tool call, one
\* that streams although it has an error, and one with an empty id and an
\* indented heading
ToolCall(name, result) == [name |-> name, args |-> "{}", result |-> result]

MessagePool ==
  << [id |-> "msg-1", agent |-> "researcher", isStreaming |-> FALSE, error |-> Undefined,
      content |-> "# Research Task\nThis is a research task", reasoningContent |-> Undefined,
      toolCalls |-> Present(<<ToolCall("web_search", "Found 10 results")>>)],
     [id |-> "msg-2", agent |-> "coder", isStreaming |-> TRUE, error |-> Undefined,
      content |-> "Researching...", reasoningContent |-> "thinking",
      toolCalls |-> Absent],
     [id |-> "msg-3", agent |-> Undefined, isStreaming |-> FALSE, error |-> "boom",
      content |-> "", reasoningContent |-> Undefined,
      toolCalls |-> Present(<<ToolCall("crawl", "Error: timeout"), ToolCall("crawl", Undefined)>>)],
     [id |-> "msg-4", agent |-> "planner", isStreaming |-> TRUE, error |-> "boom",
      content |-> "\n  \nPlan", reasoningContent |-> Undefined,
      toolCalls |-> Present(<<>>)],
     [id |-> "", agent |-> "podcast", isStreaming |-> FALSE, error |-> Undefined,
      content |-> "intro\n  ## Script  ", reasoningContent |-> Undefined,
      toolCalls |-> Absent] >>

\* every list of at most n messages of the pool
MessageLists(n) ==
  UNION { {[i \in 1..k |-> MessagePool[pick[i]]] : pick \in [1..k -> DOMAIN MessagePool]} :
          k \in 0..n }

\* what Date.now() may read
Clock == {5000, 6000}

(***************************************************************************)
(* app/api/settings/route.ts and the settings page: the configuration the  *)
(* page edits, and conf.yaml, the file the route keeps it in.              *)
(***************************************************************************)
GeneralDefaults ==
  [language |-> "zh", theme |-> "light", autoAcceptPlan |-> FALSE,
   enableClarification |-> TRUE, maxClarificationRounds |-> 3, maxPlanIterations |-> 2,
   maxStepsOfPlan |-> 3, maxSearchResults |-> 3]

\* route.ts: defaultConfigStructure
defaultConfigStructure ==
  [general |-> GeneralDefaults, mcp |-> [servers |-> <<>>],
   reportStyle |-> [writingStyle |-> "popularScience"]]

\* the settings page: defaultConfig
defaultConfig ==
  [general |-> GeneralDefaults, mcp |-> [servers |-> <<>>],
   reportStyle |-> [writingStyle |-> "popularScience"]]

\* { ...defaults, ...over }
Spread(defaults, over) ==
  [k \in DOMAIN defaults \cup DOMAIN over |-> IF k \in DOMAIN over THEN over[k] ELSE defaults[k]]

\* the text the yaml library writes for a boolean and for a one-digit number
BoolText(b) == IF b THEN "true" ELSE "false"
NumText(n) == SubSeq("0123456789", n + 1, n + 1)

\* the value the yaml library reads from a plain scalar
ParseScalar(text) ==
  IF text = "true" THEN TRUE
  ELSE IF text = "false" THEN FALSE
  ELSE IF Len(text) = 1 /\ IndexOf("0123456789", text) # 0 THEN IndexOf("0123456789", text) - 1
  ELSE text

\* mapUIToYAML(uiConfig), then yaml.stringify: a key whose value is
\* undefined is left out, which leaves the three model sections empty for a
\* configuration of the settings page
YamlStringify(uiConfig) ==
  LET g == uiConfig.general
  IN  "BASIC_MODEL: {}\nREASONING_MODEL: {}\nSEARCH_ENGINE: {}\nGENERAL_SETTINGS:\n"
      \o "  language: " \o g.language \o "\n"
      \o "  theme: " \o g.theme \o "\n"
      \o "  autoAcceptPlan: " \o BoolText(g.autoAcceptPlan) \o "\n"
      \o "  enableClarification: " \o BoolText(g.enableClarification) \o "\n"
      \o "  maxClarificationRounds: " \o NumText(g.maxClarificationRounds) \o "\n"
      \o "  maxPlanIterations: " \o NumText(g.maxPlanIterations) \o "\n"
      \o "  maxStepsOfPlan: " \o NumText(g.maxStepsOfPlan) \o "\n"
      \o "  maxSearchResults: " \o NumText(g.maxSearchResults) \o "\n"

\* the lines of a section of the file: those indented under its heading
RECURSIVE Indented(_)
Indented(lines) ==
  IF lines = <<>> \/ ~StartsWith(Head(lines), "  ") THEN <<>>
  ELSE <<Substring(Head(lines), 2)>> \o Indented(Tail(lines))

RECURSIVE SectionLines(_, _)
SectionLines(lines, section) ==
  IF lines = <<>> THEN <<>>
  ELSE IF Head(lines) = section \o ":" THEN Indented(Tail(lines))
  ELSE SectionLines(Tail(lines), section)

\* yaml.parse(fileContents)[section]?.[key]: whether the key is there, and
\* its value
YamlGet(text, section, key) ==
  LET lines == SelectSeq(SectionLines(Split(text, "\n"), section),
                         LAMBDA l : StartsWith(l, key \o ": "))
  IN  IF lines = <<>> THEN [found |-> FALSE, value |-> Undefined]
      ELSE [found |-> TRUE, value |-> ParseScalar(Substring(lines[1], Len(key) + 2))]

\* found ?? fallback
OrElse(got, fallback) == IF got.found THEN got.value ELSE fallback

\* yaml.parse, then mapYAMLToUI, with none of the NEXT_PUBLIC_ variables set
mapYAMLToUI(text) ==
  LET G(key) == OrElse(YamlGet(text, "GENERAL_SETTINGS", key), GeneralDefaults[key])
  IN  [general |->
         [language |-> G("language"), theme |-> G("theme"),
          autoAcceptPlan |-> G("autoAcceptPlan"),
          enableClarification |-> G("enableClarification"),
          maxClarificationRounds |-> G("maxClarificationRounds"),
          maxPlanIterations |-> G("maxPlanIterations"),
          maxStepsOfPlan |-> G("maxStepsOfPlan"),
          maxSearchResults |-> G("maxSearchResults"),
          basicModel |->
            [baseUrl |-> OrElse(YamlGet(text, "BASIC_MODEL", "base_url"),
                                "https://api-inference.modelscope.cn/v1"),
             model   |-> OrElse(YamlGet(text, "BASIC_MODEL", "model"), "ZhipuAI/GLM-4.6"),
             apiKey  |-> OrElse(YamlGet(text, "BASIC_MODEL", "api_key"), "")],
          reasoningModel |->
            [baseUrl |-> OrElse(YamlGet(text, "REASONING_MODEL", "base_url"),
                                "https://api-inference.modelscope.cn/v1"),
             model   |-> OrElse(YamlGet(text, "REASONING_MODEL", "model"),
                                "Qwen/Qwen3-235B-A22B-Thinking-2507"),
             apiKey  |-> OrElse(YamlGet(text, "REASONING_MODEL", "api_key"), "")],
          searchEngine |->
            [engine  |-> OrElse(YamlGet(text, "SEARCH_ENGINE", "engine"), "tavily"),
             apiKey  |-> OrElse(YamlGet(text, "SEARCH_ENGINE", "api_key"), ""),
             includeImages |-> YamlGet(text, "SEARCH_ENGINE", "include_images").found
                               /\ YamlGet(text, "SEARCH_ENGINE", "include_images").value = TRUE,
             minScoreThreshold |-> OrElse(YamlGet(text, "SEARCH_ENGINE", "min_score_threshold"),
                                          "0.4")]],
       mcp |-> [servers |-> <<>>],
       reportStyle |-> [writingStyle |-> "popularScience"]]

\* conf.yaml does not exist
NoFile == "<no file>"

\* GET: the body of the response
GET(file) == IF file # NoFile THEN mapYAMLToUI(file) ELSE defaultConfigStructure

\* POST: updatedConfig, the merge of the body into the defaults
UpdatedConfig(body) ==
  [Spread(defaultConfigStructure, body) EXCEPT
     !.general = Spread(GeneralDefaults, body.general),
     !.mcp = Spread(defaultConfigStructure.mcp, body.mcp),
     !.reportStyle = Spread(defaultConfigStructure.reportStyle, body.reportStyle)]

\* the page's `data.config || defaultConfig` for the body of a GET response
LoadedConfig(data) == IF "config" \in DOMAIN data THEN data.config ELSE defaultConfig

\* what the controls of the general tab can set
Choices ==
  [language |-> {"zh", "en"}, theme |-> {"light", "dark"}, autoAcceptPlan |-> BOOLEAN]

(***************************************************************************)
(* State.                                                                  *)
(***************************************************************************)
VARIABLES
  staticOnly,            \* env.NEXT_PUBLIC_STATIC_WEBSITE_ONLY
  location,              \* the query of the page's current URL
  transcript,            \* the file the server serves for every /mock/ path
  fastForwardReplaying,  \* the module-level flag
  ffOnBy,                \* history: who turned the flag on ("none" while it is off)
  replayCache,           \* the module-level Map, path -> text
  sess,                  \* the chatStream generators created so far
  callsLeft,             \* chatStream calls the page still makes
  togglesLeft,           \* fastForwardReplay calls the page still makes
  navLeft,               \* client-side navigations still to come
  title,                 \* the fetchReplayTitle call of the page: its query and outcome
  messages,              \* the messages of the thread the research graph is drawn from
  nodes,                 \* what messagesToNodes returned for them
  confFile,              \* conf.yaml: its text, NoFile while it does not exist
  page,                  \* the settings page: its state and its requests in flight
  saved                  \* history: the configuration of the last save that succeeded

vars == <<staticOnly, location, transcript, fastForwardReplaying, ffOnBy, replayCache,
          sess, callsLeft, togglesLeft, navLeft, title, messages, nodes,
          confFile, page, saved>>

\* the page itself (the module state survives client-side navigation)
env == <<staticOnly, transcript>>

\* the research graph
viz == <<messages, nodes>>

\* the settings: the file, the page, the history of the saves
settings == <<confFile, page, saved>>

\* what chatStream and its generators leave alone
others == <<title, viz, settings>>

\* what the functions beside chatStream leave alone
chat == <<location, fastForwardReplaying, ffOnBy, replayCache, sess, callsLeft, togglesLeft,
          navLeft>>

\* what the server serves for a path
ServerFile(path) == IF StartsWith(path, "/replay/") THEN ReplayFile ELSE transcript

\* fetchStream (core/sse): the frames the live endpoint streams, in order;
\* the server streams the frames of the transcript
LiveFrames ==
  SelectSeq([i \in 1..Len(transcript.picks) |-> ChunkPool[transcript.picks[i]]],
            LAMBDA c : c.event # "" /\ c.data # "")

\* a generator object as chatStream(...) returns it: nothing has run yet
NewSession(userFeedback) ==
  [pc       |-> "created",   \* created | fetch | sleepBefore | yield | sleepAfter |
                             \* live | liveYield | done | failed
   mode     |-> "none",      \* none | replay | live
   feedback |-> userFeedback,
   query    |-> [search |-> "", params |-> <<>>],   \* history: the query at entry
   static   |-> FALSE,       \* history: the static-site flag at entry
   mock     |-> FALSE,       \* chatReplayStream took the `mock` branch
   ffAtStart |-> FALSE,      \* history: the flag when the entry code had run
   path     |-> "",          \* replayFilePath
   net      |-> FALSE,       \* fetchReplay issued a network fetch
   posted   |-> FALSE,       \* a request was sent to chat/stream
   text     |-> "",          \* what fetchReplay returned
   chunks   |-> <<>>,
   idx      |-> 0,           \* the chunk (replay) or frame (live) being handled
   out      |-> <<>>,        \* the events yielded to the consumer
   pulls    |-> 0,           \* history: the consumer's next() calls
   fired    |-> 0,           \* history: the timers that fired
   delays   |-> <<>>,        \* history: the sleepInReplay calls
   logged   |-> 0,           \* console.error calls
   aborted  |-> FALSE,       \* options.abortSignal has fired
   abortPc  |-> "",          \* history: where the generator stood as it fired
   abortOut |-> 0,           \* history: the events yielded by then
   fetchFailed |-> FALSE,    \* history: the fetch of the transcript failed
   toggled  |-> "none",      \* history: the last fastForwardReplay call made while
                             \* the replay was under way: none | on | off
   transportFailed |-> FALSE] \* history: the live request failed

\* the module as loaded: flag off, cache empty, no chatStream call yet
Loaded ==
  /\ fastForwardReplaying = FALSE
  /\ ffOnBy = "none"
  /\ replayCache = <<>>
  /\ sess = <<>>
  /\ title = [called |-> FALSE, query |-> [search |-> "", params |-> <<>>],
              result |-> Settled(FALSE, "")]

\* no graph is drawn
NoNodes == [done |-> FALSE, list |-> <<>>]

\* no request of the settings page is under way
NoPost == [inflight |-> FALSE, body |-> defaultConfig]

\* the settings page is not open
Closed ==
  [open |-> FALSE, config |-> defaultConfig, get |-> "none", post |-> NoPost,
   toast |-> "none", shown |-> "initial", afterSave |-> FALSE]

\* nobody has opened the settings page, and conf.yaml is not written yet
SettingsIdle ==
  /\ confFile = NoFile
  /\ page = Closed
  /\ saved = [any |-> FALSE, general |-> GeneralDefaults]

\* the parts of the application beside the chat stream are at rest
Quiet ==
  /\ messages = <<>>
  /\ nodes = NoNodes
  /\ SettingsIdle

\* the queries of the pages whose sessions run side by side: a mock page, a
\* replay page, a page of the live application
PageQueries == {q \in Queries : q.search \in {"?mock=demo", "?replay=rag", "?thread=1"}}

\* The page as a whole: two chatStream calls, which may overlap, navigation
\* between the three kinds of page, fastForwardReplay calls.
Init ==
  /\ Loaded
  /\ Quiet
  /\ staticOnly = FALSE
  /\ location \in PageQueries
  /\ transcript \in {t \in DemoTranscripts : t.picks = <<1, 4>>}
  /\ callsLeft = 2
  /\ togglesLeft = MaxToggles
  /\ navLeft = MaxNav

\* One chatStream call, for every query, build flag and interrupt_feedback.
InitResolve ==
  /\ Loaded
  /\ Quiet
  /\ staticOnly \in BOOLEAN
  /\ location \in Queries
  /\ transcript \in DemoTranscripts
  /\ callsLeft = 1
  /\ togglesLeft = MaxToggles
  /\ navLeft = 0

\* One replay of every transcript of at most MaxChunks chunks.
InitParse ==
  /\ Loaded
  /\ Quiet
  /\ staticOnly = FALSE
  /\ location \in {q \in Queries : q.search = "?mock=demo"}
  /\ transcript \in Transcripts(MaxChunks)
  /\ callsLeft = 1
  /\ togglesLeft = 0
  /\ navLeft = 0

\* One unhurried replay of every transcript of at most MaxPaceChunks frames
\* that reach the pacing code, served as the default transcript of a static
\* site: the flag starts off, fastForwardReplay calls and an abort may come at
\* any point.
PacePicks == {1, 2, 3, 4, 6, 7}

PaceTranscripts ==
  { [text |-> Join(picks, "\n\n") \o "\n\n", picks |-> picks] :
      picks \in {p \in PickSeqs(MaxPaceChunks) : \A i \in DOMAIN p : p[i] \in PacePicks} }

\* One replay of every transcript of at most MaxPaceChunks chunks that wait
\* before the event, after it, or make no event at all (a payload that is not
\* JSON, a blank chunk).
LivePicks == {1, 3, 4, 6, 11}

LiveTranscripts ==
  { [text |-> Join(picks, "\n\n") \o "\n\n", picks |-> picks] :
      picks \in {p \in PickSeqs(MaxPaceChunks) : \A i \in DOMAIN p : p[i] \in LivePicks} }

InitLive ==
  /\ Loaded
  /\ Quiet
  /\ staticOnly = TRUE
  /\ location \in {q \in Queries : q.search = ""}
  /\ transcript \in LiveTranscripts
  /\ callsLeft = 1
  /\ togglesLeft = MaxToggles
  /\ navLeft = 0

InitPace ==
  /\ Loaded
  /\ Quiet
  /\ staticOnly = TRUE
  /\ location \in {q \in Queries : q.search = ""}
  /\ transcript \in PaceTranscripts
  /\ callsLeft = 1
  /\ togglesLeft = MaxToggles
  /\ navLeft = 0

\* the chat stream is at rest: no chatStream call is made
ChatIdle ==
  /\ Loaded
  /\ staticOnly = FALSE
  /\ location \in {q \in Queries : q.search = ""}
  /\ transcript \in {t \in DemoTranscripts : t.picks = <<1, 4>>}
  /\ callsLeft = 0
  /\ togglesLeft = 0
  /\ navLeft = 0

\* The research graph of every thread of at most MaxMessages messages.
InitNodes ==
  /\ ChatIdle
  /\ messages \in MessageLists(MaxMessages)
  /\ nodes = NoNodes
  /\ SettingsIdle

\* the settings page, with the chat at rest
InitSettings ==
  /\ ChatIdle
  /\ Quiet

Sessions == 1..Len(sess)

(***************************************************************************)
(* fetchReplay's use of the module-level Map.                              *)
(***************************************************************************)
\* a cache that never finds a path
CacheHasNever(cache, url) == FALSE

\* replayCache.has(url)
CacheHas(cache, url) == url \in DOMAIN cache

\* replayCache.set(url, text)
CacheSet(cache, url, text) == (url :> text) @@ cache

\* a sleepInReplay that never sets a timer of more than half a second
SleepDurationCapped(flag, ms) == IF flag THEN 0 ELSE IF ms > 500 THEN 500 ELSE ms

(***************************************************************************)
(* sleepInReplay(ms): the duration of the timer it sets.                   *)
(***************************************************************************)
SleepDuration(flag, ms) == IF flag THEN 0 ELSE ms

\* the record of a sleepInReplay(ms) call around the n-th event of a session
Delay(ms, n, pos) ==
  [ms |-> ms, dur |-> SleepDuration(fastForwardReplaying, ms), n |-> n, pos |-> pos,
   ff |-> fastForwardReplaying, explicitOn |-> ffOnBy = "explicit"]

\* a loop that, under fast-forward, passes over the chunks it would wait for
RECURSIVE RunLoopSkippingUnderFastForward(_, _)
RunLoopSkippingUnderFastForward(r, i) ==
  LET a  == Advance(r.chunks, i, r.logged)
      ev == EventOf(r.chunks[a.idx])
      q  == [r EXCEPT !.idx = a.idx, !.logged = a.logged]
  IN  IF a.at = "end" THEN [q EXCEPT !.pc = "done"]
      ELSE IF a.at = "sleep" /\ fastForwardReplaying
      THEN RunLoopSkippingUnderFastForward(q, a.idx + 1)
      ELSE IF a.at = "sleep"
      THEN [q EXCEPT !.pc = "sleepBefore",
                     !.delays = Append(@, Delay(SleepBefore(ev), Len(r.out) + 1, "before"))]
      ELSE [q EXCEPT !.pc = "yield", !.out = Append(@, ev)]

(***************************************************************************)
(* The session after the loop ran from chunk i to its next await or yield. *)
(***************************************************************************)
RunLoop(r, i) ==
  LET a  == Advance(r.chunks, i, r.logged)
      ev == EventOf(r.chunks[a.idx])
  IN  IF a.at = "end"
      THEN [r EXCEPT !.pc = "done", !.idx = a.idx, !.logged = a.logged]
      ELSE IF a.at = "sleep"
      THEN [r EXCEPT !.pc = "sleepBefore", !.idx = a.idx, !.logged = a.logged,
                     !.delays = Append(@, Delay(SleepBefore(ev), Len(r.out) + 1, "before"))]
      ELSE [r EXCEPT !.pc = "yield", !.idx = a.idx, !.logged = a.logged,
                     !.out = Append(@, ev)]

\* the session once fetchReplay has returned `text`
WithText(r, text) == RunLoop([r EXCEPT !.text = text, !.chunks = ChunksOf(text)], 1)

(***************************************************************************)
(* Actions.                                                                *)
(***************************************************************************)
\* the UI calls chatStream(userMessage, params, options): a generator object
Call(userFeedback) ==
  /\ callsLeft > 0
  /\ callsLeft' = callsLeft - 1
  /\ sess' = Append(sess, NewSession(userFeedback))
  /\ UNCHANGED <<env, others, location, fastForwardReplaying, ffOnBy, replayCache, togglesLeft,
                 navLeft>>

\* The consumer's first pull: chatStream runs to its first await.  On the
\* replay path that is chatReplayStream up to the await of fetchReplay, which
\* answers from the cache or issues the fetch; on the live path it is the
\* request fetchStream sends.
Start(s) ==
  /\ sess[s].pc = "created"
  /\ LET r == [sess[s] EXCEPT !.query = location, !.static = staticOnly, !.pulls = 1]
     IN  IF UseReplay(staticOnly, location.search)
         THEN LET res == ResolveReplay(location.search, r.feedback)
                  hit == CacheHas(replayCache, res.path)
              IN  /\ fastForwardReplaying' = (res.mock \/ fastForwardReplaying)
                  /\ ffOnBy' = IF res.mock /\ ~fastForwardReplaying THEN "mock" ELSE ffOnBy
                  /\ sess' = [sess EXCEPT ![s] =
                       [r EXCEPT !.pc = "fetch", !.mode = "replay", !.mock = res.mock,
                                 !.ffAtStart = fastForwardReplaying',
                                 !.path = res.path, !.net = ~hit,
                                 !.text = IF hit THEN replayCache[res.path] ELSE ""]]
         ELSE /\ sess' = [sess EXCEPT ![s] =
                       [r EXCEPT !.pc = "live", !.mode = "live", !.posted = TRUE,
                                 !.ffAtStart = fastForwardReplaying]]
              /\ UNCHANGED <<fastForwardReplaying, ffOnBy>>
  /\ UNCHANGED <<env, others, location, replayCache, callsLeft, togglesLeft, navLeft>>

\* fetchReplay found the path in the cache: the await resumes with the text
FetchCached(s) ==
  /\ sess[s].pc = "fetch" /\ ~sess[s].net
  /\ sess' = [sess EXCEPT ![s] = WithText(@, @.text)]
  /\ UNCHANGED <<env, others, location, fastForwardReplaying, ffOnBy, replayCache, callsLeft,
                 togglesLeft, navLeft>>

\* the fetch answers with a success status: the text is cached and returned
FetchOk(s) ==
  /\ sess[s].pc = "fetch" /\ sess[s].net
  /\ ~sess[s].aborted
  /\ LET text == ServerFile(sess[s].path).text
     IN  /\ replayCache' = CacheSet(replayCache, sess[s].path, text)
         /\ sess' = [sess EXCEPT ![s] = WithText(@, text)]
  /\ UNCHANGED <<env, others, location, fastForwardReplaying, ffOnBy, callsLeft, togglesLeft,
                 navLeft>>

\* a failed fetch handled as the live path handles its failures: logged, and
\* the generator returns
FetchFailSwallowed(s) ==
  /\ sess[s].pc = "fetch" /\ sess[s].net
  /\ sess' = [sess EXCEPT ![s].pc = "done", ![s].logged = @ + 1, ![s].fetchFailed = TRUE]
  /\ UNCHANGED <<env, others, location, fastForwardReplaying, ffOnBy, replayCache, callsLeft,
                 togglesLeft, navLeft>>

\* a fetchReplay that remembers a failure: the path is cached with no text
FetchFailCached(s) ==
  /\ sess[s].pc = "fetch" /\ sess[s].net
  /\ sess' = [sess EXCEPT ![s].pc = "failed", ![s].fetchFailed = TRUE]
  /\ replayCache' = CacheSet(replayCache, sess[s].path, "")
  /\ UNCHANGED <<env, others, location, fastForwardReplaying, ffOnBy, callsLeft, togglesLeft,
                 navLeft>>

\* the fetch rejects (network error, abort) or answers with a non-success
\* status: fetchReplay throws, and nothing between it and the consumer catches
FetchFail(s) ==
  /\ sess[s].pc = "fetch" /\ sess[s].net
  /\ sess' = [sess EXCEPT ![s].pc = "failed", ![s].fetchFailed = TRUE]
  /\ UNCHANGED <<env, others, location, fastForwardReplaying, ffOnBy, replayCache, callsLeft,
                 togglesLeft, navLeft>>

\* a sleepInReplay whose timer is set only for a positive duration: under
\* fast-forward its promise never resolves
TimerFireWhenPositive(s) ==
  /\ sess[s].pc \in {"sleepBefore", "sleepAfter"}
  /\ sess[s].delays[Len(sess[s].delays)].dur > 0
  /\ LET r == [sess[s] EXCEPT !.fired = @ + 1]
     IN  sess' = [sess EXCEPT ![s] =
           IF r.pc = "sleepBefore"
           THEN [r EXCEPT !.pc = "yield", !.out = Append(@, EventOf(r.chunks[r.idx]))]
           ELSE RunLoop(r, r.idx + 1)]
  /\ UNCHANGED <<env, others, location, fastForwardReplaying, ffOnBy, replayCache, callsLeft,
                 togglesLeft, navLeft>>

\* a replay that does not wait to be pulled: when the timer before an event
\* fires it hands the event over and goes on
TimerFireEager(s) ==
  /\ sess[s].pc \in {"sleepBefore", "sleepAfter"}
  /\ LET r  == [sess[s] EXCEPT !.fired = @ + 1]
         ev == EventOf(r.chunks[r.idx])
         q  == [r EXCEPT !.out = Append(@, ev)]
     IN  sess' = [sess EXCEPT ![s] =
           IF r.pc = "sleepAfter" THEN RunLoop(r, r.idx + 1)
           ELSE IF SleepAfter(ev) > 0
           THEN [q EXCEPT !.pc = "sleepAfter",
                          !.delays = Append(@, Delay(SleepAfter(ev), Len(q.out), "after"))]
           ELSE RunLoop(q, q.idx + 1)]
  /\ UNCHANGED <<env, others, location, fastForwardReplaying, ffOnBy, replayCache, callsLeft,
                 togglesLeft, navLeft>>

\* the timer of a sleepInReplay call fires
TimerFire(s) ==
  /\ sess[s].pc \in {"sleepBefore", "sleepAfter"}
  /\ LET r == [sess[s] EXCEPT !.fired = @ + 1]
     IN  sess' = [sess EXCEPT ![s] =
           IF r.pc = "sleepBefore"
           THEN [r EXCEPT !.pc = "yield", !.out = Append(@, EventOf(r.chunks[r.idx]))]
           ELSE RunLoop(r, r.idx + 1)]
  /\ UNCHANGED <<env, others, location, fastForwardReplaying, ffOnBy, replayCache, callsLeft,
                 togglesLeft, navLeft>>

\* the consumer pulls again: the replay resumes after its yield
Resume(s) ==
  /\ sess[s].pc = "yield"
  /\ LET r  == [sess[s] EXCEPT !.pulls = @ + 1]
         ev == EventOf(r.chunks[r.idx])
     IN  sess' = [sess EXCEPT ![s] =
           IF SleepAfter(ev) > 0
           THEN [r EXCEPT !.pc = "sleepAfter",
                          !.delays = Append(@, Delay(SleepAfter(ev), Len(r.out), "after"))]
           ELSE RunLoop(r, r.idx + 1)]
  /\ UNCHANGED <<env, others, location, fastForwardReplaying, ffOnBy, replayCache, callsLeft,
                 togglesLeft, navLeft>>

\* the live stream delivers its next frame: JSON.parse, then the yield; an
\* exception leaves the for-await loop for the catch around it
LiveFrame(s) ==
  /\ sess[s].pc = "live"
  /\ ~sess[s].aborted
  /\ sess[s].idx < Len(LiveFrames)
  /\ LET frame == LiveFrames[sess[s].idx + 1]
         data  == JSONParse(frame.data)
     IN  sess' = [sess EXCEPT ![s] =
           IF data.ok
           THEN [@ EXCEPT !.pc = "liveYield", !.idx = @ + 1,
                          !.out = Append(@, [type |-> frame.event, data |-> data])]
           ELSE [@ EXCEPT !.pc = "done", !.idx = @ + 1, !.logged = @ + 1]]
  /\ UNCHANGED <<env, others, location, fastForwardReplaying, ffOnBy, replayCache, callsLeft,
                 togglesLeft, navLeft>>

\* the live stream ends
LiveEnd(s) ==
  /\ sess[s].pc = "live"
  /\ ~sess[s].aborted
  /\ sess[s].idx = Len(LiveFrames)
  /\ sess' = [sess EXCEPT ![s].pc = "done"]
  /\ UNCHANGED <<env, others, location, fastForwardReplaying, ffOnBy, replayCache, callsLeft,
                 togglesLeft, navLeft>>

\* a live failure that nothing catches: the generator throws to its caller
LiveFailThrows(s) ==
  /\ sess[s].pc = "live"
  /\ sess' = [sess EXCEPT ![s].pc = "failed", ![s].transportFailed = TRUE]
  /\ UNCHANGED <<env, others, location, fastForwardReplaying, ffOnBy, replayCache, callsLeft,
                 togglesLeft, navLeft>>

\* the live request fails (network error, non-success status, abort): the
\* catch logs it and the generator returns
LiveFail(s) ==
  /\ sess[s].pc = "live"
  /\ sess' = [sess EXCEPT ![s].pc = "done", ![s].logged = @ + 1,
                          ![s].transportFailed = TRUE]
  /\ UNCHANGED <<env, others, location, fastForwardReplaying, ffOnBy, replayCache, callsLeft,
                 togglesLeft, navLeft>>

\* the consumer pulls again: the live loop awaits the next frame
LiveResume(s) ==
  /\ sess[s].pc = "liveYield"
  /\ sess' = [sess EXCEPT ![s].pc = "live", ![s].pulls = @ + 1]
  /\ UNCHANGED <<env, others, location, fastForwardReplaying, ffOnBy, replayCache, callsLeft,
                 togglesLeft, navLeft>>

\* The caller aborts options.abortSignal while the generator is suspended.
\* The signal is handed to fetch (in fetchReplay) and to fetchStream, which
\* then reject; no other code of the module reads it.
Abort(s) ==
  /\ sess[s].pc \in {"fetch", "sleepBefore", "yield", "sleepAfter", "live", "liveYield"}
  /\ ~sess[s].aborted
  /\ sess' = [sess EXCEPT ![s].aborted = TRUE, ![s].abortPc = sess[s].pc,
                          ![s].abortOut = Len(sess[s].out)]
  /\ UNCHANGED <<env, others, location, fastForwardReplaying, ffOnBy, replayCache, callsLeft,
                 togglesLeft, navLeft>>

\* the replay page calls fetchReplayTitle()
FetchReplayTitle ==
  /\ ~title.called
  /\ title' = [called |-> TRUE, query |-> location,
               result |-> fetchReplayTitle(location.search)]
  /\ UNCHANGED <<env, chat, viz, settings>>

\* the visualization renders: messagesToNodes(messages)
MessagesToNodes(now) ==
  /\ ~nodes.done
  /\ nodes' = [done |-> TRUE, list |-> messagesToNodes(messages, now)]
  /\ UNCHANGED <<env, chat, title, messages, settings>>

\* the settings page mounts: useState(defaultConfig), and the effect sends
\* GET /api/settings
OpenPage ==
  /\ ~page.open
  /\ page' = [Closed EXCEPT !.open = TRUE, !.get = "flight"]
  /\ UNCHANGED <<env, chat, title, viz, confFile, saved>>

\* the route answers the GET from the file as it is now, and the page takes
\* the configuration from the body
GetOk ==
  /\ page.open /\ page.get = "flight"
  /\ page' = [page EXCEPT !.get = "done", !.config = LoadedConfig(GET(confFile)),
                          !.shown = "loaded", !.afterSave = saved.any]
  /\ UNCHANGED <<env, chat, title, viz, confFile, saved>>

\* the GET fails on the network: the catch of the effect
GetFail ==
  /\ page.open /\ page.get = "flight"
  /\ page' = [page EXCEPT !.get = "failed", !.config = defaultConfig]
  /\ UNCHANGED <<env, chat, title, viz, confFile, saved>>

\* a control of the general tab: setConfig(prev => ({...prev, general:
\* {...prev.general, [field]: value}}))
EditGeneral(field, value) ==
  /\ page.open
  /\ page.config.general[field] # value
  /\ page' = [page EXCEPT !.config.general[field] = value, !.shown = "edited",
                          !.afterSave = FALSE]
  /\ UNCHANGED <<env, chat, title, viz, confFile, saved>>

\* handleReset (the button is disabled while a save is under way)
HandleReset ==
  /\ page.open /\ ~page.post.inflight
  /\ page' = [page EXCEPT !.config = defaultConfig, !.toast = "reset", !.shown = "edited",
                          !.afterSave = FALSE]
  /\ UNCHANGED <<env, chat, title, viz, confFile, saved>>

\* handleSave up to its await: POST /api/settings with the configuration
\* shown (the button is disabled while a save is under way)
HandleSave ==
  /\ page.open /\ ~page.post.inflight
  /\ page' = [page EXCEPT !.post = [inflight |-> TRUE, body |-> page.config]]
  /\ UNCHANGED <<env, chat, title, viz, confFile, saved>>

\* the route writes conf.yaml and answers 200; handleSave toasts the success
PostOk ==
  /\ page.post.inflight
  /\ confFile' = YamlStringify(UpdatedConfig(page.post.body))
  /\ saved' = [any |-> TRUE, general |-> page.post.body.general]
  /\ page' = [page EXCEPT !.post = NoPost, !.toast = "saved", !.afterSave = FALSE]
  /\ UNCHANGED <<env, chat, title, viz>>

\* the route cannot write the file and answers 500, or the request fails:
\* handleSave toasts the failure
PostFail ==
  /\ page.post.inflight
  /\ page' = [page EXCEPT !.post = NoPost, !.toast = "failed"]
  /\ UNCHANGED <<env, chat, title, viz, confFile, saved>>

\* the user leaves the settings page
ClosePage ==
  /\ page.open /\ ~page.post.inflight
  /\ page' = Closed
  /\ UNCHANGED <<env, chat, title, viz, confFile, saved>>

\* a replay is under way: entered and neither finished nor failed
InProgress(r) == r.mode = "replay" /\ r.pc \in {"fetch", "sleepBefore", "yield", "sleepAfter"}

\* fastForwardReplay(value)
FastForwardReplay(value) ==
  /\ togglesLeft > 0
  /\ togglesLeft' = togglesLeft - 1
  /\ fastForwardReplaying' = value
  /\ ffOnBy' = IF value THEN "explicit" ELSE "none"
  /\ sess' = [s \in DOMAIN sess |->
       IF InProgress(sess[s]) THEN [sess[s] EXCEPT !.toggled = IF value THEN "on" ELSE "off"]
       ELSE sess[s]]
  /\ UNCHANGED <<env, others, location, replayCache, callsLeft, navLeft>>

\* a client-side navigation changes the query; the module state stays
Navigate(q) ==
  /\ navLeft > 0
  /\ q # location
  /\ navLeft' = navLeft - 1
  /\ location' = q
  /\ UNCHANGED <<env, others, fastForwardReplaying, ffOnBy, replayCache, sess, callsLeft,
                 togglesLeft>>

Next ==
  \/ Call(Undefined)
  \/ \E s \in Sessions : Start(s)
  \/ \E s \in Sessions : FetchCached(s)
  \/ \E s \in Sessions : FetchOk(s)
  \/ \E s \in Sessions : FetchFail(s)
  \/ \E s \in Sessions : TimerFire(s)
  \/ \E s \in Sessions : Resume(s)
  \/ \E s \in Sessions : LiveFrame(s)
  \/ \E s \in Sessions : LiveEnd(s)
  \/ \E s \in Sessions : LiveFail(s)
  \/ \E s \in Sessions : LiveResume(s)
  \/ \E v \in BOOLEAN : FastForwardReplay(v)
  \/ \E q \in PageQueries : Navigate(q)

Spec == Init /\ [][Next]_vars

NextResolve ==
  \/ \E f \in Feedbacks : Call(f)
  \/ \E s \in Sessions : Start(s)
  \/ \E s \in Sessions : FetchOk(s)
  \/ \E s \in Sessions : FetchFail(s)
  \/ \E s \in Sessions : TimerFire(s)
  \/ \E s \in Sessions : Resume(s)
  \/ \E s \in Sessions : LiveFrame(s)
  \/ \E s \in Sessions : LiveEnd(s)
  \/ \E s \in Sessions : LiveFail(s)
  \/ \E s \in Sessions : LiveResume(s)
  \/ \E s \in Sessions : Abort(s)
  \/ \E v \in BOOLEAN : FastForwardReplay(v)
  \/ FetchReplayTitle

SpecResolve == InitResolve /\ [][NextResolve]_vars

NextParse ==
  \/ Call(Undefined)
  \/ \E s \in Sessions : Start(s)
  \/ \E s \in Sessions : FetchOk(s)
  \/ \E s \in Sessions : FetchFail(s)
  \/ \E s \in Sessions : TimerFire(s)
  \/ \E s \in Sessions : Resume(s)

SpecParse == InitParse /\ [][NextParse]_vars

NextPace ==
  \/ Call(Undefined)
  \/ \E s \in Sessions : Start(s)
  \/ \E s \in Sessions : FetchOk(s)
  \/ \E s \in Sessions : FetchFail(s)
  \/ \E s \in Sessions : TimerFire(s)
  \/ \E s \in Sessions : Resume(s)
  \/ \E s \in Sessions : Abort(s)
  \/ \E v \in BOOLEAN : FastForwardReplay(v)

SpecPace == InitPace /\ [][NextPace]_vars

\* a replay whose consumer keeps pulling and whose timers fire
NextLive ==
  \/ Call(Undefined)
  \/ \E s \in Sessions : Start(s)
  \/ \E s \in Sessions : FetchOk(s)
  \/ \E s \in Sessions : FetchFail(s)
  \/ \E s \in Sessions : TimerFire(s)
  \/ \E s \in Sessions : Resume(s)
  \/ \E v \in BOOLEAN : FastForwardReplay(v)

SpecLive ==
  /\ InitLive
  /\ [][NextLive]_vars
  /\ WF_vars(\E s \in Sessions : TimerFire(s))
  /\ WF_vars(\E s \in Sessions : Resume(s))

NextNodes == \E now \in Clock : MessagesToNodes(now)

SpecNodes == InitNodes /\ [][NextNodes]_vars

(***************************************************************************)
(* What the properties speak of.                                           *)
(***************************************************************************)
\* the query carries a parameter of that name
Carries(q, name) == \E i \in 1..Len(q.params) : q.params[i].name = name

\* the values the query carries for that name
ValuesOf(q, name) == {q.params[i].value : i \in {j \in 1..Len(q.params) : q.params[j].name = name}}

Started(s) == sess[s].mode # "none"
Replaying(s) == sess[s].mode = "replay"

\* the chunks the transcript of a replay session was written from
ChunksWritten(s) ==
  LET picks == ServerFile(sess[s].path).picks
  IN  [i \in 1..Len(picks) |-> ChunkPool[picks[i]]]

\* a chunk that holds a frame: an event name and a payload
HoldsFrame(c) == c.event # "" /\ c.data # ""

\* the typed events of the frames of a chunk list whose payload is JSON
RECURSIVE TypedEvents(_)
TypedEvents(cs) ==
  IF cs = <<>> THEN <<>>
  ELSE (IF HoldsFrame(Head(cs)) /\ Head(cs).json
        THEN <<[type |-> Head(cs).event, data |-> JSONParse(Head(cs).data)]>>
        ELSE <<>>) \o TypedEvents(Tail(cs))

\* a replay session that was pulled to completion
Completed(s) == Replaying(s) /\ sess[s].pc = "done"

(***************************************************************************)
(* C1.  chatStream selects its source once at entry: with the static-site  *)
(* flag set, or a query that carries a `mock` or a `replay` parameter, the *)
(* session replays and sends no request to chat/stream; with the flag      *)
(* unset and a query that carries neither, it takes the live path and      *)
(* fetches no transcript.                                                  *)
(***************************************************************************)
C1_SourceFollowsParameters ==
  \A s \in Sessions :
    Started(s) =>
      IF sess[s].static \/ Carries(sess[s].query, "mock") \/ Carries(sess[s].query, "replay")
      THEN sess[s].mode = "replay" /\ ~sess[s].posted
      ELSE sess[s].mode = "live" /\ ~sess[s].net /\ sess[s].path = ""

(***************************************************************************)
(* C2.  A replay pulled to completion has emitted exactly one typed event  *)
(* per frame with a non-empty event name and a payload that parses as      *)
(* JSON, with type = the event name and data = the parsed value, in the    *)
(* order of the frames in the text.                                        *)
(***************************************************************************)
C2_OneEventPerParsableFrame ==
  \A s \in Sessions :
    Completed(s) => sess[s].out = TypedEvents(ChunksWritten(s))

(***************************************************************************)
(* C3.  In a replay, a frame whose payload is not JSON is logged and       *)
(* skipped without an event, and every later frame whose payload is JSON   *)
(* is still emitted: the replay does not abort on the bad frame.           *)
(***************************************************************************)
BadFrame(c) == HoldsFrame(c) /\ ~c.json

\* the chunks after the first bad frame
RECURSIVE AfterFirstBad(_)
AfterFirstBad(cs) ==
  IF cs = <<>> THEN <<>>
  ELSE IF BadFrame(Head(cs)) THEN Tail(cs) ELSE AfterFirstBad(Tail(cs))

\* t is the end of u
IsSuffix(t, u) == Len(t) <= Len(u) /\ SubSeq(u, Len(u) - Len(t) + 1, Len(u)) = t

C3_ReplaySkipsBadFrame ==
  \A s \in Sessions :
    (Completed(s) /\ \E i \in 1..Len(ChunksWritten(s)) : BadFrame(ChunksWritten(s)[i])) =>
      /\ sess[s].logged >= 1
      /\ Len(sess[s].out) <= Len(TypedEvents(ChunksWritten(s)))
      /\ IsSuffix(TypedEvents(AfterFirstBad(ChunksWritten(s))), sess[s].out)

(***************************************************************************)
(* C4.  On the live path a frame whose payload is not JSON is logged and   *)
(* only that frame is skipped: unless the request itself fails, the        *)
(* session ends only when the stream has ended, having yielded every frame *)
(* whose payload is JSON.                                                  *)
(***************************************************************************)
C4_LiveSkipsBadFrame ==
  \A s \in Sessions :
    (sess[s].mode = "live" /\ sess[s].pc = "done" /\ ~sess[s].transportFailed) =>
      /\ sess[s].idx = Len(LiveFrames)
      /\ sess[s].out = TypedEvents(LiveFrames)

(***************************************************************************)
(* C5.  A chunk that lacks a non-empty event name or a non-empty payload   *)
(* produces no event and no error and leaves the events of the other       *)
(* chunks as they are: a completed replay has emitted what the replay of   *)
(* the text without those chunks emits, and logged as many errors.         *)
(***************************************************************************)
\* the events and the console.error calls of a whole pass over the chunks
RECURSIVE ReplayEvents(_, _)
ReplayEvents(chunks, i) ==
  LET a == Advance(chunks, i, 0)
  IN  IF a.at = "end" THEN <<>>
      ELSE <<ChatEventOf(chunks[a.idx])>> \o ReplayEvents(chunks, a.idx + 1)

RECURSIVE ReplayLogged(_, _)
ReplayLogged(chunks, i) ==
  LET a == Advance(chunks, i, 0)
  IN  IF a.at = "end" THEN a.logged ELSE a.logged + ReplayLogged(chunks, a.idx + 1)

\* the text written from the chunks of a session that hold a frame
FramesOnlyText(s) ==
  LET picks == ServerFile(sess[s].path).picks
  IN  Join(SelectSeq(picks, LAMBDA k : HoldsFrame(ChunkPool[k])), "\n\n")

HasIncompleteChunk(s) ==
  \E i \in 1..Len(ChunksWritten(s)) : ~HoldsFrame(ChunksWritten(s)[i])

C5_IncompleteChunkIsInert ==
  \A s \in Sessions :
    (Completed(s) /\ HasIncompleteChunk(s)) =>
      /\ sess[s].out = ReplayEvents(ChunksOf(FramesOnlyText(s)), 1)
      /\ sess[s].logged = ReplayLogged(ChunksOf(FramesOnlyText(s)), 1)

\* a completed replay of a frame, a chunk without payload and a frame
C5_Witness ==
  \E s \in Sessions :
    /\ Completed(s)
    /\ Len(ChunksWritten(s)) = 3
    /\ HoldsFrame(ChunksWritten(s)[1])
    /\ ChunksWritten(s)[2].event # "" /\ ChunksWritten(s)[2].data = ""
    /\ HoldsFrame(ChunksWritten(s)[3])
    /\ Len(sess[s].out) = 2

(***************************************************************************)
(* C6.  A query that carries `mock` with a non-empty value <name> makes    *)
(* the replay session load /mock/<name>.txt, whatever else the query       *)
(* carries and whatever interrupt_feedback is, and the fast-forward flag   *)
(* is on once the session has started, also after an explicit              *)
(* fastForwardReplay(false).                                               *)
(***************************************************************************)
C6_MockNameWins ==
  \A s \in Sessions :
    Replaying(s) =>
      \A name \in ValuesOf(sess[s].query, "mock") :
        name # "" => /\ sess[s].path = "/mock/" \o name \o ".txt"
                     /\ sess[s].ffAtStart

\* a mock session started on a query that also carries a registered replay
\* id, with interrupt_feedback "accepted", after fastForwardReplay(false)
C6_Witness ==
  \E s \in Sessions :
    /\ Replaying(s)
    /\ sess[s].pc = "fetch"
    /\ Carries(sess[s].query, "replay") /\ "demo" \in ValuesOf(sess[s].query, "mock")
    /\ sess[s].feedback = "accepted"
    /\ togglesLeft = 0 /\ fastForwardReplaying /\ ffOnBy = "mock"

(***************************************************************************)
(* C7.  A query that carries `mock` with an empty value makes              *)
(* interrupt_feedback choose the transcript: "accepted" the final answer,  *)
(* "edit_plan" the re-plan, anything else the first plan; fast-forward is  *)
(* on in all three cases.                                                  *)
(***************************************************************************)
C7_EmptyMockByFeedback ==
  \A s \in Sessions :
    (Replaying(s) /\ ValuesOf(sess[s].query, "mock") = {""}) =>
      /\ sess[s].path = CASE sess[s].feedback = "accepted" -> "/mock/final-answer.txt"
                          [] sess[s].feedback = "edit_plan" -> "/mock/re-plan.txt"
                          [] OTHER -> "/mock/first-plan.txt"
      /\ sess[s].ffAtStart

C7_Witness ==
  \E s \in Sessions :
    /\ Replaying(s)
    /\ ValuesOf(sess[s].query, "mock") = {""}
    /\ sess[s].feedback = "edit_plan"
    /\ sess[s].path = "/mock/re-plan.txt"
    /\ fastForwardReplaying

(***************************************************************************)
(* C8.  Without a `mock` parameter, a replay id of the registry makes the  *)
(* session load /replay/<id>.txt.                                          *)
(***************************************************************************)
C8_RegisteredIdResolves ==
  \A s \in Sessions :
    (Replaying(s) /\ ~Carries(sess[s].query, "mock")) =>
      \A id \in ValuesOf(sess[s].query, "replay") \cap DOMAIN REPLAY_DATA :
        sess[s].path = "/replay/" \o id \o ".txt"

C8_Witness ==
  \E s \in Sessions :
    /\ Replaying(s)
    /\ ~Carries(sess[s].query, "mock")
    /\ "rag" \in ValuesOf(sess[s].query, "replay")
    /\ sess[s].path = "/replay/rag.txt"
    /\ sess[s].pc = "done"

(***************************************************************************)
(* C9.  Without a `mock` parameter, an absent replay id or one that is not *)
(* registered makes the session load /mock/first-plan.txt, never a         *)
(* /replay/ path.                                                          *)
(***************************************************************************)
C9_UnregisteredIdFallsBack ==
  \A s \in Sessions :
    (/\ Replaying(s)
     /\ ~Carries(sess[s].query, "mock")
     /\ ValuesOf(sess[s].query, "replay") \cap DOMAIN REPLAY_DATA = {}) =>
      sess[s].path = "/mock/first-plan.txt"

(***************************************************************************)
(* C10.  A replay session resolved without a `mock` parameter runs at      *)
(* normal pacing: each of its delays lasts its nominal duration unless an  *)
(* explicit fastForwardReplay(true) turned fast-forward on, whatever       *)
(* sessions ran before it or run beside it.                                *)
(***************************************************************************)
C10_NormalPacingWithoutMock ==
  \A s \in Sessions :
    (Replaying(s) /\ ~Carries(sess[s].query, "mock")) =>
      \A i \in 1..Len(sess[s].delays) :
        sess[s].delays[i].dur = sess[s].delays[i].ms \/ sess[s].delays[i].explicitOn

(***************************************************************************)
(* What the pacing properties speak of.                                    *)
(***************************************************************************)
\* the sleepInReplay calls a session made at that side of its n-th event
DelaysAt(s, n, pos) == SelectSeq(sess[s].delays, LAMBDA d : d.n = n /\ d.pos = pos)

\* a wait of `ms` nominal milliseconds: it lasts that long when fast-forward
\* was off as it was set, and 0 ms when fast-forward was on
Paced(d, ms) == d.ms = ms /\ d.dur = (IF d.ff THEN 0 ELSE ms)

\* exactly one wait, of `ms`, at that side of the n-th event
OneWait(s, n, pos, ms) ==
  Len(DelaysAt(s, n, pos)) = 1 /\ Paced(DelaysAt(s, n, pos)[1], ms)

NoWait(s, n, pos) == DelaysAt(s, n, pos) = <<>>

\* the replay went on after its n-th event: the consumer pulled again
WentOn(s, n) == n < Len(sess[s].out) \/ sess[s].pc # "yield"

\* a wait is pending: the timer is set and has not fired
Waiting(s) == sess[s].pc \in {"sleepBefore", "sleepAfter"}

\* While a wait is pending nothing is emitted past it: the wait before the
\* n-th event is pending with n - 1 events out, the wait after it with n out,
\* and the stream has not ended.
WaitsComplete(s) ==
  LET r == sess[s]
      d == r.delays[Len(r.delays)]
  IN  /\ r.pc = "sleepBefore" => r.delays # <<>> /\ d.pos = "before" /\ d.n = Len(r.out) + 1
      /\ r.pc = "sleepAfter" => r.delays # <<>> /\ d.pos = "after" /\ d.n = Len(r.out)
      /\ \A i \in 1..Len(r.delays) :
           /\ r.delays[i].n <= Len(r.out) + (IF r.pc = "sleepBefore" THEN 1 ELSE 0)
           /\ (i < Len(r.delays) /\ r.delays[i].pos = "before") => r.delays[i].n <= r.delays[i + 1].n
           /\ (i < Len(r.delays) /\ r.delays[i].pos = "after") => r.delays[i].n < r.delays[i + 1].n

(***************************************************************************)
(* C11.  Every tool_call_result event of a replay has one 500 ms wait      *)
(* before it, which is over when the event is emitted, and, once the       *)
(* replay goes on, one 800 ms wait after it, which is over when the next   *)
(* event is emitted or the stream ends; a wait set while fast-forward is   *)
(* on lasts 0 ms.                                                          *)
(***************************************************************************)
C11_ToolResultWaits ==
  \A s \in Sessions :
    Replaying(s) =>
      /\ WaitsComplete(s)
      /\ \A n \in 1..Len(sess[s].out) :
           sess[s].out[n].type = "tool_call_result" =>
             /\ OneWait(s, n, "before", 500)
             /\ IF WentOn(s, n) THEN OneWait(s, n, "after", 800) ELSE NoWait(s, n, "after")

\* a tool result that waited 500 ms, was followed by another event, and whose
\* wait after it, set under fast-forward, lasted 0 ms
C11_Witness ==
  \E s \in Sessions : \E n \in 1..Len(sess[s].out) :
    /\ sess[s].out[n].type = "tool_call_result"
    /\ n < Len(sess[s].out)
    /\ DelaysAt(s, n, "before")[1].dur = 500
    /\ DelaysAt(s, n, "after")[1].dur = 0

\* the payload has a finish_reason field, whatever its value
HasFinishReasonField(data) == data.finish_reason # Undefined

\* the payload names a reason why generation finished
Finished(data) == ~Falsy(data.finish_reason)

(***************************************************************************)
(* C12, as claimed.  A replayed message_chunk has one 50 ms wait before it *)
(* (0 ms under fast-forward) when its payload has no finish_reason field,  *)
(* and no wait before it when its payload has one.                         *)
(***************************************************************************)
C12_WaitIffNoFinishReasonField ==
  \A s \in Sessions :
    Replaying(s) =>
      \A n \in 1..Len(sess[s].out) :
        sess[s].out[n].type = "message_chunk" =>
          IF HasFinishReasonField(sess[s].out[n].data)
          THEN NoWait(s, n, "before")
          ELSE OneWait(s, n, "before", 50)

(***************************************************************************)
(* C12, amended.  A replayed message_chunk has one 50 ms wait before it    *)
(* (0 ms under fast-forward) when its payload names no finish reason: the  *)
(* field is absent, or present with a null or empty value.  It has no      *)
(* wait before it when its payload names one.                              *)
(***************************************************************************)
C12_WaitIffNotFinished ==
  \A s \in Sessions :
    Replaying(s) =>
      \A n \in 1..Len(sess[s].out) :
        sess[s].out[n].type = "message_chunk" =>
          IF Finished(sess[s].out[n].data)
          THEN NoWait(s, n, "before")
          ELSE OneWait(s, n, "before", 50)

\* one replay that emitted a message_chunk whose finish_reason is null after
\* a wait of 50 ms, and one that names a finish reason after no wait
C12_Witness ==
  \E s \in Sessions : \E i, j \in 1..Len(sess[s].out) :
    /\ sess[s].out[i].type = "message_chunk"
    /\ sess[s].out[j].type = "message_chunk"
    /\ sess[s].out[i].data.finish_reason = Null
    /\ DelaysAt(s, i, "before") # <<>>
    /\ DelaysAt(s, i, "before")[1].dur = 50
    /\ Finished(sess[s].out[j].data)
    /\ NoWait(s, j, "before")

(***************************************************************************)
(* C13.  Once the replay goes on after a message_chunk whose payload role  *)
(* is "user", there is one 500 ms wait after it (0 ms under fast-forward), *)
(* which is over when the next event is emitted; after a message_chunk of  *)
(* any other role there is no wait.                                        *)
(***************************************************************************)
C13_UserMessageWait ==
  \A s \in Sessions :
    Replaying(s) =>
      /\ WaitsComplete(s)
      /\ \A n \in 1..Len(sess[s].out) :
           sess[s].out[n].type = "message_chunk" =>
             IF sess[s].out[n].data.role = "user" /\ WentOn(s, n)
             THEN OneWait(s, n, "after", 500)
             ELSE NoWait(s, n, "after")

\* a user message followed, 500 ms later, by a message_chunk of no user, and
\* the replay went on after that one without a wait
C13_Witness ==
  \E s \in Sessions :
    /\ Len(sess[s].out) = 2
    /\ sess[s].pc = "done"
    /\ sess[s].out[1].type = "message_chunk" /\ sess[s].out[1].data.role = "user"
    /\ sess[s].out[2].type = "message_chunk" /\ sess[s].out[2].data.role # "user"
    /\ DelaysAt(s, 1, "after")[1].dur = 500
    /\ NoWait(s, 2, "after")

(***************************************************************************)
(* C14.  A replayed event that is neither a message_chunk nor a            *)
(* tool_call_result has no wait before it and no wait after it.            *)
(***************************************************************************)
C14_OtherEventsUndelayed ==
  \A s \in Sessions :
    Replaying(s) =>
      \A n \in 1..Len(sess[s].out) :
        sess[s].out[n].type \notin {"message_chunk", "tool_call_result"} =>
          NoWait(s, n, "before") /\ NoWait(s, n, "after")

\* an interrupt event between a paced event and the end of the replay
C14_Witness ==
  \E s \in Sessions :
    /\ Len(sess[s].out) = 2
    /\ sess[s].pc = "done"
    /\ sess[s].out[1].type = "tool_call_result"
    /\ sess[s].out[2].type = "interrupt"
    /\ DelaysAt(s, 1, "after")[1].dur = 800
    /\ Len(sess[s].delays) = 2

\* t is the start of u
IsPrefix(t, u) == Len(t) <= Len(u) /\ SubSeq(u, 1, Len(t)) = t

\* the session has the text of its transcript
HasText(s) == Replaying(s) /\ sess[s].pc \notin {"fetch", "failed"}

\* the session set a timer with fast-forward off and one with it on
PacedBothWays(s) ==
  \E i, j \in 1..Len(sess[s].delays) : ~sess[s].delays[i].ff /\ sess[s].delays[j].ff

(***************************************************************************)
(* C15.  Fast-forward changes only timing: the events a replay emits       *)
(* (count, order, type and data) are the typed events of the frames its    *)
(* transcript was written from, whatever the flag was at the start and     *)
(* however it was turned on and off while the replay ran.                  *)
(***************************************************************************)
C15_FastForwardOnlyTiming ==
  \A s \in Sessions :
    HasText(s) =>
      LET frames == TypedEvents(ChunksWritten(s))
      IN  /\ IsPrefix(sess[s].out, frames)
          /\ sess[s].pc = "done" => sess[s].out = frames

\* a replay of two paced events that ran to its end, the flag turned on
\* between two of its timers
C15_Witness ==
  \E s \in Sessions :
    /\ sess[s].pc = "done"
    /\ Len(sess[s].out) = 2
    /\ PacedBothWays(s)

\* the fetchReplay calls that issued a network fetch for the path
NetworkFetches(path) == {s \in Sessions : sess[s].net /\ sess[s].path = path}

\* the paths fetchReplay was called with
PathsFetched == {sess[s].path : s \in {r \in Sessions : Replaying(r)}}

(***************************************************************************)
(* C16.  Whatever the interleaving of the fetchReplay calls, overlapping   *)
(* calls for one path included, at most one network fetch is issued per    *)
(* transcript path.                                                        *)
(***************************************************************************)
C16_OneFetchPerPath ==
  \A path \in PathsFetched : Cardinality(NetworkFetches(path)) <= 1

\* fetchReplay is called for a path in the course of the step
FetchReplayCalled(s) == sess[s].pc = "created" /\ sess'[s].mode = "replay"

(***************************************************************************)
(* C17.  Once a fetchReplay call for a path has completed successfully the *)
(* cache holds its text, and from then on: no step removes or replaces the *)
(* entry; a fetchReplay call for the path issues no network fetch and      *)
(* returns the cached text, which is the text the first call returned.     *)
(* So two calls in sequence for one path make one network fetch.           *)
(***************************************************************************)
C17_CachedAfterSuccess ==
  [][ /\ \A path \in DOMAIN replayCache :
           path \in DOMAIN replayCache' /\ replayCache'[path] = replayCache[path]
      /\ \A s \in Sessions :
           /\ (FetchReplayCalled(s) /\ sess'[s].path \in DOMAIN replayCache) =>
                ~sess'[s].net /\ sess'[s].text = replayCache[sess'[s].path]
           /\ (sess[s].pc = "fetch" /\ sess'[s].pc \notin {"fetch", "failed"}) =>
                /\ sess'[s].path \in DOMAIN replayCache'
                /\ sess'[s].text = replayCache'[sess'[s].path]
    ]_vars

\* two replays of one path, both at their end with the same text, one of
\* which fetched it
C17_Witness ==
  \E s, t \in Sessions :
    /\ s # t
    /\ sess[s].pc = "done" /\ sess[t].pc = "done"
    /\ Replaying(s) /\ Replaying(t)
    /\ sess[s].path = sess[t].path
    /\ sess[s].text = sess[t].text /\ sess[s].text # ""
    /\ sess[s].net /\ ~sess[t].net
    /\ Cardinality(NetworkFetches(sess[s].path)) = 1

\* the generator of the session can take a step
CanStep(s) ==
  ENABLED (\/ Start(s) \/ FetchCached(s) \/ FetchOk(s) \/ FetchFail(s) \/ TimerFire(s)
           \/ Resume(s) \/ LiveFrame(s) \/ LiveEnd(s) \/ LiveFail(s) \/ LiveResume(s))

(***************************************************************************)
(* C18.  A replay session whose transcript fetch failed has thrown to its  *)
(* caller: the generator ended with the error, which nothing caught or     *)
(* logged; it emitted no event and set no timer; and it takes no further   *)
(* step, so the fetch is not tried again.                                  *)
(***************************************************************************)
C18_FetchFailureIsFatal ==
  \A s \in Sessions :
    sess[s].fetchFailed =>
      /\ sess[s].pc = "failed"
      /\ sess[s].mode = "replay"
      /\ sess[s].out = <<>>
      /\ sess[s].delays = <<>>
      /\ sess[s].logged = 0
      /\ ~CanStep(s)

\* a session whose fetch failed with no abort: a non-success status
C18_Witness ==
  \E s \in Sessions :
    sess[s].fetchFailed /\ ~sess[s].aborted /\ sess[s].pc = "failed"

\* the events of the first k frames of the live stream
LiveEvents(k) == [i \in 1..k |-> [type |-> LiveFrames[i].event, data |-> JSONParse(LiveFrames[i].data)]]

(***************************************************************************)
(* C19.  A session whose live request failed (network error, non-success   *)
(* status, abort) has ended normally: the generator returned and did not   *)
(* throw; the error was logged; the events yielded before the failure are  *)
(* the events of the frames received, with no event added for the error;   *)
(* and nothing of the replay path ran: no transcript path, no fetch, no    *)
(* timer.                                                                  *)
(***************************************************************************)
C19_LiveFailureEndsQuietly ==
  \A s \in Sessions :
    sess[s].transportFailed =>
      /\ sess[s].pc = "done"
      /\ sess[s].mode = "live"
      /\ sess[s].logged = 1
      /\ sess[s].out = LiveEvents(sess[s].idx)
      /\ sess[s].path = "" /\ ~sess[s].net /\ sess[s].text = ""
      /\ sess[s].delays = <<>>
      /\ ~CanStep(s)

\* a live stream aborted after its first event
C19_Witness ==
  \E s \in Sessions :
    /\ sess[s].transportFailed
    /\ sess[s].aborted
    /\ Len(sess[s].out) >= 1

\* the signal of the session fired while a replay timer was pending
AbortedInWait(s) ==
  Replaying(s) /\ sess[s].aborted /\ sess[s].abortPc \in {"sleepBefore", "sleepAfter"}

(***************************************************************************)
(* C20.  A replay whose signal was aborted during a timer wait emits no    *)
(* further event: the emission the timer was set for, and every one after  *)
(* it, is skipped.                                                         *)
(***************************************************************************)
C20_AbortInWaitStopsReplay ==
  \A s \in Sessions :
    AbortedInWait(s) => Len(sess[s].out) = sess[s].abortOut

\* the pulls of the consumer that were answered: with an event, with the end
\* of the stream, or with an error
Answered(s) == Len(sess[s].out) + (IF sess[s].pc \in {"done", "failed"} THEN 1 ELSE 0)

\* the timers of the session that are set and have not fired
PendingTimers(s) == Len(sess[s].delays) - sess[s].fired

\* the generator of the session can take a step that is not a pull
CanStepUnpulled(s) ==
  ENABLED (\/ FetchCached(s) \/ FetchOk(s) \/ FetchFail(s) \/ TimerFire(s)
           \/ LiveFrame(s) \/ LiveEnd(s) \/ LiveFail(s))

(***************************************************************************)
(* C21.  The replay producer is pull-driven.  Before the first pull of a   *)
(* session nothing has run: no request, no timer, and while no session was *)
(* pulled the cache is empty and the flag is on only by an explicit call.  *)
(* A timer is pending only while a pull waits for its answer; a session    *)
(* has at most one pending timer; each pull sets at most the wait after    *)
(* one event and the wait before the next; and while no pull waits the     *)
(* generator takes no step, so no further timer is set.                    *)
(***************************************************************************)
C21_PullDriven ==
  /\ (\A s \in Sessions : sess[s].pulls = 0) =>
       replayCache = <<>> /\ (fastForwardReplaying => ffOnBy = "explicit")
  /\ \A s \in Sessions :
       /\ sess[s].pulls = 0 =>
            /\ sess[s].pc = "created" /\ sess[s].mode = "none"
            /\ ~sess[s].net /\ ~sess[s].posted
            /\ sess[s].delays = <<>> /\ sess[s].out = <<>>
       /\ Replaying(s) =>
            /\ sess[s].pulls \in {Answered(s), Answered(s) + 1}
            /\ PendingTimers(s) \in {0, 1}
            /\ PendingTimers(s) = 1 <=> Waiting(s)
            /\ Waiting(s) => sess[s].pulls = Answered(s) + 1
            /\ Len(sess[s].delays) <= 2 * sess[s].pulls
            /\ sess[s].pulls = Answered(s) => ~CanStepUnpulled(s)

\* a replay that handed over a paced event and was not pulled again: its
\* timer has fired and no other is set
C21_Witness ==
  \E s \in Sessions :
    /\ Replaying(s)
    /\ sess[s].pc = "yield"
    /\ sess[s].pulls = 1
    /\ sess[s].fired = 1
    /\ PendingTimers(s) = 0

\* the registered replay ids the query names
RegisteredIds(q) == ValuesOf(q, "replay") \cap DOMAIN REPLAY_DATA

(***************************************************************************)
(* C22.  fetchReplayTitle returns the registry's title when the `replay`   *)
(* parameter of the query is a registered replay id, and raises an error   *)
(* in every other case: no parameter, or a value that is not a registered  *)
(* id.  It never returns a default title or a value that is no title.      *)
(***************************************************************************)
C22_TitleOrError ==
  title.called =>
    IF RegisteredIds(title.query) # {}
    THEN /\ title.result.ok
         /\ \E id \in RegisteredIds(title.query) : title.result.value = REPLAY_DATA[id]
    ELSE ~title.result.ok

\* the graph was drawn of a thread of n messages
Drawn(n) == nodes.done /\ Len(messages) = n

(***************************************************************************)
(* C23, as claimed.  The node of a message has the status "running" when   *)
(* the message is streaming, else "error" when it has an error, else       *)
(* "completed"; and it has the id and the agent of the message.            *)
(***************************************************************************)
C23_NodeKeepsMessage ==
  nodes.done =>
    \A i \in DOMAIN messages :
      /\ nodes.list[i].status =
           (IF messages[i].isStreaming THEN "running"
            ELSE IF messages[i].error # Undefined THEN "error"
            ELSE "completed")
      /\ nodes.list[i].id = messages[i].id
      /\ nodes.list[i].agent = messages[i].agent

(***************************************************************************)
(* C23, amended.  The node of a message has the status "running" when the  *)
(* message is streaming, else "error" when it has an error, else           *)
(* "completed"; it has the id of the message; and it has the agent of the  *)
(* message, or "unknown" when the message has none.                        *)
(***************************************************************************)
C23_NodeOfMessage ==
  nodes.done =>
    \A i \in DOMAIN messages :
      /\ nodes.list[i].status =
           (IF messages[i].isStreaming THEN "running"
            ELSE IF messages[i].error # Undefined THEN "error"
            ELSE "completed")
      /\ nodes.list[i].id = messages[i].id
      /\ nodes.list[i].agent =
           (IF messages[i].agent = Undefined THEN "unknown" ELSE messages[i].agent)

\* a graph with a running node of a message that has an error, an error
\* node, and a node of a message of no agent
C23_Witness ==
  /\ nodes.done
  /\ \E i, j \in DOMAIN messages :
       /\ messages[i].isStreaming /\ messages[i].error # Undefined
       /\ nodes.list[i].status = "running"
       /\ nodes.list[j].status = "error"
       /\ messages[j].agent = Undefined /\ nodes.list[j].agent = "unknown"

(***************************************************************************)
(* C24, as claimed.  messagesToNodes returns one node per message, in the  *)
(* order of the messages, node i with the id and the agent of message i,   *)
(* linked as a chain: the first node has no parent, every other node has   *)
(* the id of the node before it as parentId, and every node but the last   *)
(* has the id of the node after it as its only child.  No message gives no *)
(* node.                                                                   *)
(***************************************************************************)
C24_LinearChain ==
  nodes.done =>
    /\ Len(nodes.list) = Len(messages)
    /\ \A i \in DOMAIN nodes.list :
         /\ nodes.list[i].id = messages[i].id
         /\ nodes.list[i].agent = messages[i].agent
         /\ i = 1 => nodes.list[i].parentId = Undefined
         /\ i > 1 => nodes.list[i].parentId = nodes.list[i - 1].id
         /\ i < Len(nodes.list) =>
              /\ nodes.list[i].children.present
              /\ nodes.list[i].children.items = <<nodes.list[i + 1].id>>

(***************************************************************************)
(* C24, amended.  messagesToNodes returns one node per message, in the     *)
(* order of the messages, node i with the id of message i and its agent,   *)
(* or "unknown" when it has none, linked as a chain: the first node has no *)
(* parent, every other node has the id of the node before it as parentId,  *)
(* and every node but the last has as children the id of the node after    *)
(* it, or nothing when that id is the empty string; the last node has no   *)
(* children.  No message gives no node.                                    *)
(***************************************************************************)
C24_LinearChainOfIds ==
  nodes.done =>
    /\ Len(nodes.list) = Len(messages)
    /\ \A i \in DOMAIN nodes.list :
         /\ nodes.list[i].id = messages[i].id
         /\ nodes.list[i].agent =
              (IF messages[i].agent = Undefined THEN "unknown" ELSE messages[i].agent)
         /\ i = 1 => nodes.list[i].parentId = Undefined
         /\ i > 1 => nodes.list[i].parentId = nodes.list[i - 1].id
         /\ i < Len(nodes.list) =>
              /\ nodes.list[i].children.present
              /\ nodes.list[i].children.items =
                   (IF nodes.list[i + 1].id = "" THEN <<>> ELSE <<nodes.list[i + 1].id>>)
         /\ i = Len(nodes.list) => ~nodes.list[i].children.present

\* a chain of three nodes whose middle node has the empty id
C24_Witness ==
  /\ Drawn(3)
  /\ nodes.list[2].id = ""
  /\ nodes.list[1].children.items = <<>>
  /\ nodes.list[2].children.items = <<nodes.list[3].id>>
  /\ nodes.list[3].parentId = ""
  /\ nodes.list[3].id # ""

(***************************************************************************)
(* The settings page against its route.                                    *)
(***************************************************************************)
NextSettings ==
  \/ OpenPage
  \/ GetOk
  \/ GetFail
  \/ \E field \in DOMAIN Choices : \E value \in Choices[field] : EditGeneral(field, value)
  \/ HandleReset
  \/ HandleSave
  \/ PostOk
  \/ PostFail
  \/ ClosePage

SpecSettings == InitSettings /\ [][NextSettings]_vars

\* the general settings the page shows are those of the last save
ShowsSaved == \A k \in DOMAIN GeneralDefaults : page.config.general[k] = saved.general[k]

\* the page shows what a load answered after the last successful save gave it
LoadedAfterSave ==
  page.open /\ page.get = "done" /\ page.shown = "loaded" /\ page.afterSave

\* C25: once a save of the settings page has succeeded, a later load of the
\* page shows the general settings that were saved, not the defaults.
C25_LoadShowsSaved == LoadedAfterSave => ShowsSaved

\* the step starts a delay of the replay s
StartsDelay(s) == Len(sess'[s].delays) = Len(sess[s].delays) + 1

\* the delay the step starts
NewDelay(s) == sess'[s].delays[Len(sess'[s].delays)]

\* C26: the flag is read anew as each delay starts: once fastForwardReplay(v)
\* was called while a replay is under way, every delay of that replay that
\* starts afterwards lasts 0 ms if v is true and its nominal duration if v is
\* false.
C26_DelayFollowsLastCall ==
  [][\A s \in Sessions :
       (StartsDelay(s) /\ sess[s].toggled # "none") =>
         NewDelay(s).dur = (IF sess[s].toggled = "on" THEN 0 ELSE NewDelay(s).ms)]_vars

\* the chunks of a text that are not blank
NonBlank(chunks) == {i \in DOMAIN chunks : Trim(chunks[i]) # ""}

\* the replay ended by running out of chunks, with no more events than chunks
\* that are not blank
CompletedWithinChunks(s) ==
  Completed(s) /\ Len(sess[s].out) <= Cardinality(NonBlank(sess[s].chunks))

\* C27: whatever the transcript, a replay that has its text, whose consumer
\* keeps pulling and whose timers all fire, eventually completes, having
\* emitted at most one event for each chunk of the text that is not blank.
C27_ReplayCompletes ==
  (Len(sess) >= 1 /\ HasText(1)) ~> (Len(sess) >= 1 /\ CompletedWithinChunks(1))

\* a replay of a tool result and a blank chunk completed with the one event,
\* after both its timers fired
C27_Witness ==
  /\ Len(sess) >= 1 /\ Completed(1)
  /\ Len(sess[1].chunks) = 3
  /\ Cardinality(NonBlank(sess[1].chunks)) = 1
  /\ Len(sess[1].out) = 1
  /\ sess[1].fired = 2 /\ sess[1].pulls = 2
\* the durations of the timers a replay set, added up
RECURSIVE SumDur(_)
SumDur(delays) == IF delays = <<>> THEN 0 ELSE Head(delays).dur + SumDur(Tail(delays))

\* how many of the events satisfy P
CountOf(events, P(_)) == Cardinality({i \in DOMAIN events : P(events[i])})

Unfinished(e) == e.type = "message_chunk" /\ ~Finished(e.data)
FromUser(e) == e.type = "message_chunk" /\ e.data.role = "user"
ToolResult(e) == e.type = "tool_call_result"

\* the nominal pacing of a list of events
NominalTotal(events) ==
  50 * CountOf(events, Unfinished) + 1300 * CountOf(events, ToolResult)
    + 500 * CountOf(events, FromUser)

\* fast-forward was off (on) at every delay of the replay
OffThroughout(s) == \A i \in DOMAIN sess[s].delays : ~sess[s].delays[i].ff
OnThroughout(s) == \A i \in DOMAIN sess[s].delays : sess[s].delays[i].ff

\* C28: for a replay pulled to completion with fast-forward off throughout,
\* the requested delays add up to 50 ms for each emitted message_chunk without
\* a finish reason, 1300 ms for each emitted tool_call_result and 500 ms for
\* each emitted message_chunk of role "user"; with fast-forward on throughout
\* they add up to 0.
C28_TotalDelay ==
  \A s \in Sessions :
    Completed(s) =>
      /\ OffThroughout(s) => SumDur(sess[s].delays) = NominalTotal(sess[s].out)
      /\ OnThroughout(s) => SumDur(sess[s].delays) = 0

\* a user message and a tool result replayed at normal pacing: 50 + 500 and
\* 500 + 800 ms
C28_Witness ==
  \E s \in Sessions :
    /\ Completed(s) /\ OffThroughout(s)
    /\ CountOf(sess[s].out, FromUser) = 1 /\ CountOf(sess[s].out, ToolResult) = 1
    /\ Len(sess[s].delays) = 4
    /\ SumDur(sess[s].delays) = 1850

\* t is u with some of its elements left out
RECURSIVE IsSubseq(_, _)
IsSubseq(t, u) ==
  IF t = <<>> THEN TRUE
  ELSE IF u = <<>> THEN FALSE
  ELSE IF Head(t) = Head(u) THEN IsSubseq(Tail(t), Tail(u))
  ELSE IsSubseq(t, Tail(u))

\* the lines of a chunk that start with the prefix
LinesWith(src, prefix) ==
  SelectSeq(Split(ReplaceCRLF(src), "\n"), LAMBDA l : StartsWith(l, prefix))

\* the chunks of the pool with several `event: ` lines or several `data: ` lines
SeveralLines ==
  {k \in DOMAIN ChunkPool :
     Len(LinesWith(ChunkPool[k].src, "event: ")) > 1
       \/ Len(LinesWith(ChunkPool[k].src, "data: ")) > 1}

\* the event of the last `event: ` line and the last `data: ` line of a chunk
LastLinesEvent(c) == [type |-> c.event, data |-> JSONParse(c.data)]

\* C29: each frame is built from exactly one chunk.  The events of a
\* completed replay are, in order, events of single chunks of the text, each
\* with the name of the chunk's last `event: ` line and the payload of its
\* last `data: ` line alone: nothing is put together from two chunks, and a
\* chunk with several lines of a kind gives the event of its last lines.
C29_FramePerChunk ==
  \A s \in Sessions :
    Completed(s) =>
      /\ IsSubseq(sess[s].out, TypedEvents(ChunksWritten(s)))
      /\ \A i \in DOMAIN ServerFile(sess[s].path).picks :
           LET k == ServerFile(sess[s].path).picks[i]
           IN  (k \in SeveralLines /\ HoldsFrame(ChunkPool[k]) /\ ChunkPool[k].json) =>
                 \E n \in DOMAIN sess[s].out : sess[s].out[n] = LastLinesEvent(ChunkPool[k])

\* a completed replay of a chunk with an event name only, a chunk with a
\* payload only, and a chunk with two lines of each kind: one event, that of
\* the last lines of the third chunk
C29_Witness ==
  \E s \in Sessions :
    /\ Completed(s)
    /\ ServerFile(sess[s].path).picks = <<8, 9, 7>>
    /\ Len(sess[s].out) = 1
    /\ sess[s].out[1].type = "interrupt"
    /\ sess[s].out[1].data.src = "{}"

\* the step is the failure of the fetch of s
FetchFails(s) == sess'[s].fetchFailed /\ ~sess[s].fetchFailed

\* the step is the entry of s into fetchReplay
EntersFetch(s) == sess[s].pc = "created" /\ sess'[s].pc = "fetch"

\* a fetch of the path has failed, and none has succeeded
OnlyFailed(path) ==
  /\ \E t \in Sessions : sess[t].path = path /\ sess[t].fetchFailed
  /\ \A t \in Sessions : (sess[t].path = path /\ sess[t].net) => ~HasText(t)

\* C30: a fetchReplay call that fails leaves the cache as it was, and a later
\* call for the same path goes to the network again, where it can succeed: a
\* failure is never cached.
C30_FailureNotCached ==
  [][\A s \in Sessions :
       /\ FetchFails(s) => replayCache' = replayCache
       /\ (EntersFetch(s) /\ OnlyFailed(sess'[s].path)) =>
            (sess'[s].net /\ ~CacheHas(replayCache', sess'[s].path))]_vars

\* the first call's fetch failed; the second call, for the same path, fetched
\* the transcript from the network and replayed it to the end
C30_Witness ==
  /\ Len(sess) = 2
  /\ sess[1].fetchFailed /\ sess[1].pc = "failed"
  /\ sess[2].path = sess[1].path /\ sess[2].net
  /\ Completed(2) /\ Len(sess[2].out) >= 1
  /\ CacheHas(replayCache, sess[2].path)

====
